---------------------------- MODULE Spec2Model ----------------------------
(***************************************************************************)
(* Verification model of the calculators repository: the mortgage engine   *)
(* (amortization, affordability solver, refinance, fixed-vs-ARM) and the   *)
(* shared API throttler.                                                   *)
(*                                                                         *)
(* JavaScript numbers are modelled as signed decimal fixed-point numbers:  *)
(* IntLimbs limbs of Base = 10^4 before the point and FracLimbs limbs      *)
(* after it (16 integer and 12 fractional decimal digits for 4 and 3).     *)
(* Addition, subtraction and comparison are exact; multiplication and      *)
(* division round to the nearest representable value, as IEEE-754          *)
(* operations do at their own precision.  No value of the calculators on   *)
(* the inputs used here comes near the largest representable magnitude.    *)
(***************************************************************************)
EXTENDS Integers, Sequences, FiniteSets, TLC

\* ------------------------------------------------------------------------
\* Magnitudes: little-endian tuples of limbs in 0..Base-1, of a fixed length
\* ------------------------------------------------------------------------

Base == 100 * 100

IntLimbs == 4

FracLimbs == 3

Width == IntLimbs + FracLimbs

\* TLC evaluates definitions and arguments on demand, nested inside whatever
\* asked for them first.  Evaluated(v) is TRUE, and testing it makes v a value
\* at that point: it fixes the order of evaluation and nothing else.
Evaluated(v) == v = v

Min2(x, y) == IF x <= y THEN x ELSE y

Max2(x, y) == IF x >= y THEN x ELSE y

\* the function f on 1..n as a tuple, every element computed once
Tup(f) == f \o <<>>

ZeroMag(n) == Tup([i \in 1..n |-> 0])

\* a < b for magnitudes of the same length
LtMag(a, b) ==
    \E i \in 1..Len(a) : a[i] < b[i] /\ \A j \in (i + 1)..Len(a) : a[j] = b[j]

\* the limb-wise sums s with the carries propagated (carry-lookahead, no
\* overflow limb): limb i receives a carry when a limb below it overflows and
\* every limb in between is full
AddCarry(s) ==
    Tup([i \in 1..Len(s) |->
            (s[i] + (IF \E j \in 1..(i - 1) :
                            s[j] >= Base /\ \A k \in (j + 1)..(i - 1) : s[k] = Base - 1
                     THEN 1 ELSE 0)) % Base])

\* a + b for magnitudes of the same length
AddMag(a, b) == AddCarry(Tup([i \in 1..Len(a) |-> a[i] + b[i]]))

\* the limb-wise differences d with the borrows propagated
SubBorrow(d) ==
    Tup([i \in 1..Len(d) |->
            (d[i] - (IF \E j \in 1..(i - 1) :
                            d[j] < 0 /\ \A k \in (j + 1)..(i - 1) : d[k] = 0
                     THEN 1 ELSE 0) + Base) % Base])

\* a - b for magnitudes of the same length with a >= b
SubMag(a, b) == SubBorrow(Tup([i \in 1..Len(a) |-> a[i] - b[i]]))

\* the limb-wise products p (each below Base^2) as a magnitude one limb longer
SplitLimbs(p) ==
    AddMag(Tup([i \in 1..(Len(p) + 1) |-> IF i <= Len(p) THEN p[i] % Base ELSE 0]),
           Tup([i \in 1..(Len(p) + 1) |-> IF i > 1 THEN p[i - 1] \div Base ELSE 0]))

\* a * k for 0 <= k < Base, one limb longer than a
MulSmall(a, k) == SplitLimbs(Tup([i \in 1..Len(a) |-> a[i] * k]))

\* s[lo] + ... + s[hi]
RECURSIVE SumSeq(_, _, _)
SumSeq(s, lo, hi) ==
    IF lo > hi THEN 0
    ELSE IF lo = hi THEN s[lo]
    ELSE SumSeq(s, lo, (lo + hi) \div 2) + SumSeq(s, (lo + hi) \div 2 + 1, hi)

\* the column sums cols (each below Base^3) as a magnitude: their three
\* base-Base digits added up
SplitColumns(cols) ==
    IF Evaluated(cols)
    THEN AddMag(
           AddMag(Tup([k \in 1..Len(cols) |-> cols[k] % Base]),
                  Tup([k \in 1..Len(cols) |->
                          IF k > 1 THEN (cols[k - 1] \div Base) % Base ELSE 0])),
           Tup([k \in 1..Len(cols) |->
                   IF k > 2 THEN (cols[k - 2] \div Base) \div Base ELSE 0]))
    ELSE cols

\* a * b for magnitudes of the same length n, of length 2n
MulMag(a, b) ==
    SplitColumns(
        Tup([k \in 1..(2 * Len(a)) |->
                SumSeq(Tup([i \in 1..Len(a) |->
                               IF k + 1 - i \in 1..Len(a) THEN a[i] * b[k + 1 - i] ELSE 0]),
                       1, Len(a))]))

\* dv * t, of the length of dv
DivProd(dv, t) == SubSeq(MulSmall(dv, t), 1, Len(dv))

\* the largest element of a non-empty set of integers
Largest(F) == CHOOSE t \in F : \A s \in F : s <= t

\* the quotient limb q is known: subtract dv * q, note q
DivSubtract(st, dv, cur, q) ==
    IF Evaluated(q)
    THEN [r |-> SubMag(cur, DivProd(dv, q)), q |-> Append(st.q, q)]
    ELSE st

\* the quotient limb is the largest t with dv * t <= cur, at most 2 below the
\* estimate qhat
DivQuotient(st, dv, cur, qhat) ==
    DivSubtract(st, dv, cur,
                Largest({t \in Max2(0, qhat - 2)..qhat : ~LtMag(cur, DivProd(dv, t))}))

\* the estimate of the quotient limb from the top two limbs of cur
DivEstimate(st, dv, cur) ==
    IF Evaluated(cur)
    THEN DivQuotient(st, dv, cur,
                     Min2(Base - 1, (cur[Len(dv)] * Base + cur[Len(dv) - 1])
                                        \div dv[Len(dv) - 1]))
    ELSE st

\* one step of long division: bring down limb i of u, find the quotient limb
DivStep(st, u, dv, i) ==
    DivEstimate(st, dv, Tup([j \in 1..Len(dv) |-> IF j = 1 THEN u[i] ELSE st.r[j - 1]]))

\* the steps for the limbs hi, hi - 1, ..., lo of u
RECURSIVE DivRange(_, _, _, _, _)
DivRange(st, u, dv, hi, lo) ==
    IF hi = lo THEN DivStep(st, u, dv, hi)
    ELSE LET Rest(first) ==
                 IF first.q # <<>>
                 THEN DivRange(first, u, dv, (hi + lo + 1) \div 2 - 1, lo)
                 ELSE first
         IN  Rest(DivRange(st, u, dv, hi, (hi + lo + 1) \div 2))

\* the quotient quo rounded to nearest: up unless twice the remainder is
\* below the divisor
DivRound(fin, dv, quo) ==
    IF LtMag(AddMag(fin.r, fin.r), dv)
    THEN quo
    ELSE AddMag(quo, Tup([i \in 1..Len(quo) |-> IF i = 1 THEN 1 ELSE 0]))

\* the long division of u by dv, and the quotient limbs of it that num has
DivLong(num, u, dv, fin) ==
    IF Evaluated(fin)
    THEN DivRound(fin, dv, Tup([i \in 1..Len(num) |-> fin.q[Len(u) + 1 - i]]))
    ELSE num

\* numerator and denominator scaled by f, so that the top limb (limb m) of the
\* divisor dv is at least Base / 2
DivScaled(num, u, dv) ==
    IF Evaluated(u) /\ Evaluated(dv)
    THEN DivLong(num, u, dv,
                 DivRange([r |-> ZeroMag(Len(dv)), q |-> <<>>], u, dv, Len(u), 1))
    ELSE num

DivTop(num, den, m) ==
    DivScaled(num, MulSmall(num, Base \div (den[m] + 1)),
              SubSeq(MulSmall(den, Base \div (den[m] + 1)), 1, m) \o <<0>>)

\* num / den for den # 0: the quotient (of the length of num) rounded to nearest
DivMag(num, den) ==
    DivTop(num, den, CHOOSE i \in 1..Len(den) :
                         den[i] # 0 /\ \A j \in (i + 1)..Len(den) : den[j] = 0)

\* ------------------------------------------------------------------------
\* Numbers: [neg |-> BOOLEAN, mag |-> magnitude] in units of Base^-FracLimbs
\* ------------------------------------------------------------------------

Mk(neg, mag) == [neg |-> (neg /\ mag # ZeroMag(Width)), mag |-> mag]

Zero == Mk(FALSE, ZeroMag(Width))

\* the magnitude of the integer n >= 0
MagOfNat(n) ==
    Tup([i \in 1..Width |->
            IF i = FracLimbs + 1 THEN n % Base
            ELSE IF i = FracLimbs + 2 THEN (n \div Base) % Base
            ELSE IF i = FracLimbs + 3 THEN (n \div Base) \div Base
            ELSE 0])

\* the integer n (any sign) as a number
Num(n) == IF n < 0 THEN Mk(TRUE, MagOfNat(-n)) ELSE Mk(FALSE, MagOfNat(n))

One == Num(1)

Neg(x) == Mk(~x.neg, x.mag)

Lt(x, y) ==
    IF x.neg # y.neg THEN x.neg
    ELSE IF x.neg THEN LtMag(y.mag, x.mag)
    ELSE LtMag(x.mag, y.mag)

Le(x, y) == ~Lt(y, x)
Gt(x, y) == Lt(y, x)
Ge(x, y) == ~Lt(x, y)
IsZero(x) == x.mag = ZeroMag(Width)

Add(x, y) ==
    IF x.neg = y.neg THEN Mk(x.neg, AddMag(x.mag, y.mag))
    ELSE IF LtMag(x.mag, y.mag) THEN Mk(y.neg, SubMag(y.mag, x.mag))
    ELSE Mk(x.neg, SubMag(x.mag, y.mag))

Sub(x, y) == Add(x, Neg(y))

\* one unit in the last place
Ulp == Tup([i \in 1..Width |-> IF i = 1 THEN 1 ELSE 0])

\* the double-length product p rounded to nearest at the point
MulRound(neg, p) ==
    IF Evaluated(p)
    THEN Mk(neg, IF p[FracLimbs] >= Base \div 2
                 THEN AddMag(SubSeq(p, FracLimbs + 1, FracLimbs + Width), Ulp)
                 ELSE SubSeq(p, FracLimbs + 1, FracLimbs + Width))
    ELSE Zero

\* x * y, rounded to nearest
Mul(x, y) ==
    IF Evaluated(x) /\ Evaluated(y)
    THEN MulRound(x.neg # y.neg, MulMag(x.mag, y.mag))
    ELSE Zero

\* x / y for y # 0, rounded to nearest
Div(x, y) ==
    IF Evaluated(x) /\ Evaluated(y)
    THEN Mk(x.neg # y.neg,
            SubSeq(DivMag(Tup([i \in 1..(Width + FracLimbs) |->
                                  IF i <= FracLimbs THEN 0 ELSE x.mag[i - FracLimbs]]),
                          y.mag),
                   1, Width))
    ELSE Zero

\* Math.min, Math.max
MathMin(x, y) == IF Le(x, y) THEN x ELSE y
MathMax(x, y) == IF Ge(x, y) THEN x ELSE y

\* x with integer part ip rounded towards minus infinity
FloorFrom(x, ip) ==
    IF x.neg /\ ip # x.mag THEN Mk(TRUE, AddMag(ip, One.mag)) ELSE Mk(x.neg, ip)

\* Math.floor
MathFloor(x) ==
    IF Evaluated(x)
    THEN FloorFrom(x, Tup([i \in 1..Width |-> IF i <= FracLimbs THEN 0 ELSE x.mag[i]]))
    ELSE x

\* Math.ceil
MathCeil(x) == Neg(MathFloor(Neg(x)))

\* 0.5
Half == Mk(FALSE, Tup([i \in 1..Width |-> IF i = FracLimbs THEN Base \div 2 ELSE 0]))

\* Math.round: floor(x + 0.5)
MathRound(x) == MathFloor(Add(x, Half))

\* Math.round(x * 100) / 100
RoundCents(x) == Div(MathRound(Mul(x, Num(100))), Num(100))

\* Math.round(x * 10) / 10
RoundTenths(x) == Div(MathRound(Mul(x, Num(10))), Num(10))

\* acc^(2^(k+1)) * x^(n mod 2^(k+1)): square-and-multiply over the bits k..0 of n
RECURSIVE PowBits(_, _, _, _)
PowBits(x, acc, n, k) ==
    IF k < 0 THEN acc
    ELSE LET Rest(a) == IF Evaluated(a) THEN PowBits(x, a, n, k - 1) ELSE a
             Bit(sq) == Rest(IF (n \div 2^k) % 2 = 1 THEN Mul(sq, x) ELSE sq)
         IN  Bit(Mul(acc, acc))

\* Math.pow(x, n) for an integer n >= 0
MathPow(x, n) ==
    IF n = 0 THEN One
    ELSE PowBits(x, One, n, CHOOSE k \in 0..30 : 2^k <= n /\ n \div 2^k < 2)

\* n / d for integers n and d > 0: how decimal inputs such as 6.5 are written
Dec(n, d) == Div(Num(n), Num(d))


\* ------------------------------------------------------------------------
\* State
\* ------------------------------------------------------------------------

VARIABLES
    calc,          \* the calculator being called ("none" while the throttler runs)
    in,            \* the input record of the call
    loc,           \* the locals of the call while it is inside its loop, else NotRun
    out,           \* the returned record, NotRun before the call returns
    prev,          \* [in, out] of the preceding call of the same calculator, or NotRun
    now,           \* Date.now() in ms
    lastCallTime,  \* ApiThrottler.lastCallTime
    callers,       \* per caller of throttle(): its position and locals
    released       \* the times at which throttle() calls resolved, in order

vars == <<calc, in, loc, out, prev, now, lastCallTime, callers, released>>

NotRun == [run |-> FALSE]

calcVars == <<calc, in, loc, out, prev>>
throttleVars == <<now, lastCallTime, callers, released>>

\* ------------------------------------------------------------------------
\* Amortization schedule (amortization.ts)
\* ------------------------------------------------------------------------

MaxTermYears == 3

\* the payment without the interest factor
MonthlyPIIgnoringRate(loanAmount, monthlyRate, totalPayments) ==
    Div(loanAmount, Num(totalPayments))

calculateMonthlyPI(loanAmount, monthlyRate, totalPayments) ==
    LET Payment(factor) ==
            Div(Mul(Mul(loanAmount, monthlyRate), factor), Sub(factor, One))
    IN  IF IsZero(monthlyRate)
        THEN Div(loanAmount, Num(totalPayments))
        ELSE Payment(MathPow(Add(One, monthlyRate), totalPayments))

\* the locals of calculateAmortization when it reaches its loop
AmortizationLocals(inputs) ==
    LET Locals(monthlyRate, totalPayments) ==
            [run                 |-> TRUE,
             monthlyRate         |-> monthlyRate,
             totalPayments       |-> totalPayments,
             monthlyPayment      |-> calculateMonthlyPI(inputs.loanAmount, monthlyRate,
                                                        totalPayments),
             paymentNum          |-> 1,
             remainingBalance    |-> inputs.loanAmount,
             cumulativePrincipal |-> Zero,
             cumulativeInterest  |-> Zero,
             schedule            |-> <<>>]
    IN  Locals(Div(Div(inputs.annualInterestRate, Num(100)), Num(12)),
               inputs.loanTermYears * 12)

\* the loop going on only while the balance shows more than 0.00
AmortizationLoopUntilPaid(l) ==
    l.paymentNum <= l.totalPayments /\ ~IsZero(RoundCents(l.remainingBalance))

\* for (...; paymentNum <= totalPayments; ...)
AmortizationLoopCondition(l) == l.paymentNum <= l.totalPayments

\* the loop body with the operands of payment - interest swapped
AmortizationPassSwapped(l) ==
    LET Push(interestPayment, actualPrincipal, remainingBalance,
             cumulativePrincipal, cumulativeInterest) ==
            [l EXCEPT
                !.paymentNum          = l.paymentNum + 1,
                !.remainingBalance    = remainingBalance,
                !.cumulativePrincipal = cumulativePrincipal,
                !.cumulativeInterest  = cumulativeInterest,
                !.schedule = Append(l.schedule,
                    [paymentNumber       |-> l.paymentNum,
                     payment             |-> RoundCents(l.monthlyPayment),
                     principal           |-> RoundCents(actualPrincipal),
                     interest            |-> RoundCents(interestPayment),
                     remainingBalance    |-> RoundCents(remainingBalance),
                     cumulativePrincipal |-> RoundCents(cumulativePrincipal),
                     cumulativeInterest  |-> RoundCents(cumulativeInterest)])]
        Accumulate(interestPayment, actualPrincipal) ==
            Push(interestPayment, actualPrincipal,
                 MathMax(Zero, Sub(l.remainingBalance, actualPrincipal)),
                 Add(l.cumulativePrincipal, actualPrincipal),
                 Add(l.cumulativeInterest, interestPayment))
        Split(interestPayment) ==
            Accumulate(interestPayment,
                       MathMin(Sub(interestPayment, l.monthlyPayment), l.remainingBalance))
    IN  Split(Mul(l.remainingBalance, l.monthlyRate))

\* one pass of the loop body, paymentNum++ included: the interest on the balance,
\* the principal (payment - interest, at most the balance), the running totals,
\* and the entry pushed with its amounts rounded to cents
AmortizationPass(l) ==
    LET Push(interestPayment, actualPrincipal, remainingBalance,
             cumulativePrincipal, cumulativeInterest) ==
            [l EXCEPT
                !.paymentNum          = l.paymentNum + 1,
                !.remainingBalance    = remainingBalance,
                !.cumulativePrincipal = cumulativePrincipal,
                !.cumulativeInterest  = cumulativeInterest,
                !.schedule = Append(l.schedule,
                    [paymentNumber       |-> l.paymentNum,
                     payment             |-> RoundCents(l.monthlyPayment),
                     principal           |-> RoundCents(actualPrincipal),
                     interest            |-> RoundCents(interestPayment),
                     remainingBalance    |-> RoundCents(remainingBalance),
                     cumulativePrincipal |-> RoundCents(cumulativePrincipal),
                     cumulativeInterest  |-> RoundCents(cumulativeInterest)])]
        Accumulate(interestPayment, actualPrincipal) ==
            Push(interestPayment, actualPrincipal,
                 MathMax(Zero, Sub(l.remainingBalance, actualPrincipal)),
                 Add(l.cumulativePrincipal, actualPrincipal),
                 Add(l.cumulativeInterest, interestPayment))
        Split(interestPayment) ==
            Accumulate(interestPayment,
                       MathMin(Sub(l.monthlyPayment, interestPayment), l.remainingBalance))
    IN  Split(Mul(l.remainingBalance, l.monthlyRate))

\* ps[lo][f] + ... + ps[hi][f]; Add is exact, so the order in which the terms
\* are added does not change the sum
RECURSIVE SumField(_, _, _, _)
SumField(ps, f, lo, hi) ==
    IF lo > hi THEN Zero
    ELSE IF lo = hi THEN ps[lo][f]
    ELSE Add(SumField(ps, f, lo, (lo + hi) \div 2),
             SumField(ps, f, (lo + hi) \div 2 + 1, hi))

CeilDiv(a, b) == (a + b - 1) \div b

generateYearlySummary(schedule) ==
    LET Summary(year, yearPayments) ==
            [year           |-> year,
             totalPrincipal |-> RoundCents(SumField(yearPayments, "principal", 1,
                                                    Len(yearPayments))),
             totalInterest  |-> RoundCents(SumField(yearPayments, "interest", 1,
                                                    Len(yearPayments))),
             totalPayments  |-> RoundCents(SumField(yearPayments, "payment", 1,
                                                    Len(yearPayments))),
             startingBalance |->
                 Add(yearPayments[1].remainingBalance, yearPayments[1].principal),
             endingBalance  |-> yearPayments[Len(yearPayments)].remainingBalance]
    IN  [year \in 1..CeilDiv(Len(schedule), 12) |->
            Summary(year, SubSeq(schedule, (year - 1) * 12 + 1,
                                 Min2(year * 12, Len(schedule))))]

\* the record calculateAmortization returns once its loop is over
AmortizationResult(l) ==
    [run            |-> TRUE,
     monthlyPayment |-> RoundCents(l.monthlyPayment),
     totalPayments  |-> l.totalPayments,
     totalPrincipal |-> RoundCents(l.cumulativePrincipal),
     totalInterest  |-> RoundCents(l.cumulativeInterest),
     schedule       |-> l.schedule,
     yearlySummary  |-> generateYearlySummary(l.schedule)]

\* inputs the mortgage page accepts: rate 0..20 in steps of 0.125, term >= 1
AmortizationLoanAmounts ==
    {Num(1000), Num(320000), Dec(12345678, 100), Dec(10, 100), Dec(99999999, 100)}

AmortizationRates == {Zero, Dec(125, 1000), Dec(65, 10), Num(20)}

AmortizationInputs ==
    [loanAmount         : AmortizationLoanAmounts,
     annualInterestRate : AmortizationRates,
     loanTermYears      : 1..MaxTermYears]

InitAmortization ==
    /\ calc = "calculateAmortization"
    /\ in \in AmortizationInputs
    /\ loc = NotRun
    /\ out = NotRun
    /\ prev = NotRun
    /\ now = 0 /\ lastCallTime = 0 /\ callers = <<>> /\ released = <<>>

\* calculateAmortization is called and runs up to its loop
AmortizationEnter ==
    /\ calc = "calculateAmortization"
    /\ ~loc.run /\ ~out.run
    /\ loc' = AmortizationLocals(in)
    /\ UNCHANGED <<calc, in, out, prev, throttleVars>>

\* one pass of the loop
AmortizationIterate ==
    /\ calc = "calculateAmortization"
    /\ loc.run /\ AmortizationLoopCondition(loc)
    /\ loc' = AmortizationPass(loc)
    /\ UNCHANGED <<calc, in, out, prev, throttleVars>>

\* the loop is over: the yearly summary is built and the record returned
AmortizationReturn ==
    /\ calc = "calculateAmortization"
    /\ loc.run /\ ~AmortizationLoopCondition(loc)
    /\ out' = AmortizationResult(loc)
    /\ loc' = NotRun
    /\ UNCHANGED <<calc, in, prev, throttleVars>>

NextAmortization == AmortizationEnter \/ AmortizationIterate \/ AmortizationReturn

SpecAmortization == InitAmortization /\ [][NextAmortization]_vars


\* the last entry of a schedule
LastEntry(r) == r.schedule[Len(r.schedule)]

\* |x| <= 1 cent * n
WithinCents(x, n) == Le(x, Dec(n, 100)) /\ Ge(x, Dec(-n, 100))

\* C2: for principal > 0, rate >= 0 and termYears >= 1 the schedule has exactly
\* termYears * 12 entries, numbered 1, 2, ..., termYears * 12; the loop does not
\* leave early once the balance is zero.
C2_ScheduleComplete ==
    (calc = "calculateAmortization" /\ out.run) =>
        /\ Len(out.schedule) = in.loanTermYears * 12
        /\ \A i \in 1..Len(out.schedule) : out.schedule[i].paymentNumber = i

\* a returned schedule whose balance shows 0.00 before its last entry
C2_Witness ==
    /\ calc = "calculateAmortization" /\ out.run
    /\ Gt(in.loanAmount, Zero)
    /\ \E i \in 1..(Len(out.schedule) - 1) : IsZero(out.schedule[i].remainingBalance)
    /\ Len(out.schedule) = in.loanTermYears * 12

\* C3: in every schedule remainingBalance is >= 0 in every entry and never
\* increases from one entry to the next.
C3_BalanceNonIncreasing ==
    (calc = "calculateAmortization" /\ out.run) =>
        \A i \in 1..Len(out.schedule) :
            /\ Ge(out.schedule[i].remainingBalance, Zero)
            /\ i > 1 => Le(out.schedule[i].remainingBalance,
                           out.schedule[i - 1].remainingBalance)

\* a returned schedule at a positive rate whose balance falls strictly from the
\* first entry to the second and has reached zero in the last
C3_Witness ==
    /\ calc = "calculateAmortization" /\ out.run
    /\ Gt(in.annualInterestRate, Zero)
    /\ Len(out.schedule) = MaxTermYears * 12
    /\ IsZero(LastEntry(out).remainingBalance)
    /\ Lt(out.schedule[2].remainingBalance, out.schedule[1].remainingBalance)

\* C4: the last entry has remainingBalance 0 and cumulativePrincipal equal to the
\* loan amount, each within 1 cent * number of payments.
C4_FinalEntry ==
    (calc = "calculateAmortization" /\ out.run) =>
        /\ WithinCents(LastEntry(out).remainingBalance, Len(out.schedule))
        /\ WithinCents(Sub(LastEntry(out).cumulativePrincipal, in.loanAmount),
                       Len(out.schedule))

\* a returned schedule of the longest term at the highest rate, paid off
C4_Witness ==
    /\ calc = "calculateAmortization" /\ out.run
    /\ in.annualInterestRate = Num(20)
    /\ in.loanTermYears = MaxTermYears
    /\ LastEntry(out).cumulativePrincipal = in.loanAmount
    /\ Gt(LastEntry(out).cumulativeInterest, Zero)


\* ------------------------------------------------------------------------
\* Monthly payment (monthlyPayment.ts)
\* ------------------------------------------------------------------------

\* an optional field the caller left out
Undefined == [special |-> "undefined"]

\* a destructuring default: hoaMonthly = 0, pmiRate = 0
Default(v, d) == IF v = Undefined THEN d ELSE v

\* the principal and interest payment, without the branch for a rate of 0
MonthlyPaymentPIPerYear(loanAmount, monthlyRate, totalPayments) ==
    Div(loanAmount, Num(totalPayments \div 12))

MonthlyPaymentPI(loanAmount, monthlyRate, totalPayments) ==
    LET Payment(factor) ==
            Div(Mul(Mul(loanAmount, monthlyRate), factor), Sub(factor, One))
    IN  IF IsZero(monthlyRate)
        THEN Div(loanAmount, Num(totalPayments))
        ELSE Payment(MathPow(Add(One, monthlyRate), totalPayments))

\* PMI charged up to and including a down payment of 20 percent
MonthlyPaymentPMIAtThreshold(loanAmount, downPaymentPercent, rate) ==
    IF Le(downPaymentPercent, Num(20)) /\ Gt(rate, Zero)
    THEN Div(Mul(loanAmount, Div(rate, Num(100))), Num(12))
    ELSE Zero

\* PMI charged only below a down payment of 10 percent
MonthlyPaymentPMIBelowTen(loanAmount, downPaymentPercent, rate) ==
    IF Lt(downPaymentPercent, Num(10)) /\ Gt(rate, Zero)
    THEN Div(Mul(loanAmount, Div(rate, Num(100))), Num(12))
    ELSE Zero

MonthlyPaymentPMI(loanAmount, downPaymentPercent, rate) ==
    IF Lt(downPaymentPercent, Num(20)) /\ Gt(rate, Zero)
    THEN Div(Mul(loanAmount, Div(rate, Num(100))), Num(12))
    ELSE Zero

\* the record calculateMonthlyPayment builds from its locals
MonthlyPaymentRecord(loanAmount, downPaymentPercent, totalPayments, pi, tax, ins, pmi, hoa) ==
    [run                         |-> TRUE,
     loanAmount                  |-> MathRound(loanAmount),
     monthlyPrincipalAndInterest |-> RoundCents(pi),
     monthlyPropertyTax          |-> RoundCents(tax),
     monthlyInsurance            |-> RoundCents(ins),
     monthlyPMI                  |-> RoundCents(pmi),
     monthlyHOA                  |-> RoundCents(hoa),
     totalMonthlyPayment         |-> RoundCents(Add(Add(Add(Add(pi, tax), ins), pmi), hoa)),
     downPaymentPercent          |-> RoundTenths(downPaymentPercent),
     totalInterestPaid           |-> MathRound(Sub(Mul(pi, Num(totalPayments)), loanAmount)),
     totalPayments               |-> totalPayments]

calculateMonthlyPayment(inputs) ==
    LET Locals(loanAmount, downPaymentPercent, monthlyRate, totalPayments) ==
            MonthlyPaymentRecord(
                loanAmount, downPaymentPercent, totalPayments,
                MonthlyPaymentPI(loanAmount, monthlyRate, totalPayments),
                Div(inputs.propertyTaxAnnual, Num(12)),
                Div(inputs.homeownersInsuranceAnnual, Num(12)),
                MonthlyPaymentPMI(loanAmount, downPaymentPercent,
                                  Default(inputs.pmiRate, Zero)),
                Default(inputs.hoaMonthly, Zero))
    IN  Locals(Sub(inputs.homePrice, inputs.downPayment),
               Mul(Div(inputs.downPayment, inputs.homePrice), Num(100)),
               Div(Div(inputs.annualInterestRate, Num(100)), Num(12)),
               inputs.loanTermYears * 12)

\* home price and down payment: 20 percent exactly, 10 percent, a dollar below
\* 20 percent, a dollar above, nothing down, and amounts that are not round
MonthlyPaymentPrices ==
    {<<400000, 80000>>, <<400000, 40000>>, <<500000, 99999>>, <<500000, 100000>>,
     <<250000, 50001>>, <<350000, 0>>, <<123456, 12345>>}

MonthlyPaymentRates == {Zero, Dec(65, 10), Dec(3125, 1000)}

MonthlyPaymentTerms == {15, 30}

MonthlyPaymentInputs ==
    {[homePrice                 |-> Num(p[1]),
      downPayment               |-> Num(p[2]),
      annualInterestRate        |-> r,
      loanTermYears             |-> t,
      propertyTaxAnnual         |-> tax,
      homeownersInsuranceAnnual |-> ins,
      hoaMonthly                |-> hoa,
      pmiRate                   |-> pmi] :
        p \in MonthlyPaymentPrices, r \in MonthlyPaymentRates, t \in MonthlyPaymentTerms,
        tax \in {Num(4800), Num(5000)}, ins \in {Num(1200), Num(1000)},
        hoa \in {Undefined, Num(300), Dec(2505, 100)},
        pmi \in {Undefined, Dec(5, 10), Dec(12, 10)}}

InitMonthlyPayment ==
    /\ calc = "calculateMonthlyPayment"
    /\ in \in MonthlyPaymentInputs
    /\ loc = NotRun
    /\ out = NotRun
    /\ prev = NotRun
    /\ now = 0 /\ lastCallTime = 0 /\ callers = <<>> /\ released = <<>>

\* calculateMonthlyPayment is called and returns its record
MonthlyPaymentCall ==
    /\ calc = "calculateMonthlyPayment"
    /\ ~out.run
    /\ out' = calculateMonthlyPayment(in)
    /\ UNCHANGED <<calc, in, loc, prev, throttleVars>>

NextMonthlyPayment == MonthlyPaymentCall

SpecMonthlyPayment == InitMonthlyPayment /\ [][NextMonthlyPayment]_vars


\* the sum of the five components of a returned record
ComponentsOf(r) ==
    Add(Add(Add(Add(r.monthlyPrincipalAndInterest, r.monthlyPropertyTax),
                r.monthlyInsurance), r.monthlyPMI), r.monthlyHOA)

\* C12: in every record returned by calculateMonthlyPayment, totalMonthlyPayment
\* equals the sum of monthlyPrincipalAndInterest, monthlyPropertyTax,
\* monthlyInsurance, monthlyPMI and monthlyHOA of that same record, to the cent.
C12_TotalIsSumOfComponents ==
    (calc = "calculateMonthlyPayment" /\ out.run) =>
        out.totalMonthlyPayment = ComponentsOf(out)

\* a returned record, with PMI and HOA in it, whose total is the sum of its
\* components
C12_TotalAgrees ==
    /\ calc = "calculateMonthlyPayment" /\ out.run
    /\ Gt(out.monthlyPMI, Zero) /\ Gt(out.monthlyHOA, Zero)
    /\ out.totalMonthlyPayment = ComponentsOf(out)


\* the down payment of the call is below 20 percent of the home price
BelowTwentyPercent == Lt(Mul(in.downPayment, Num(5)), in.homePrice)

InitZeroRate == (InitMonthlyPayment \/ InitAmortization) /\ IsZero(in.annualInterestRate)

NextZeroRate == NextMonthlyPayment \/ NextAmortization

SpecZeroRate == InitZeroRate /\ [][NextZeroRate]_vars

\* the principal of the call and the payment field of the returned record
ZeroRatePrincipal ==
    IF calc = "calculateMonthlyPayment" THEN Sub(in.homePrice, in.downPayment)
    ELSE in.loanAmount

ZeroRatePayment ==
    IF calc = "calculateMonthlyPayment" THEN out.monthlyPrincipalAndInterest
    ELSE out.monthlyPayment

ZeroRateInterest ==
    IF calc = "calculateMonthlyPayment" THEN out.totalInterestPaid ELSE out.totalInterest

\* C15 as stated: at an annual rate of 0 the returned monthly payment of
\* principal and interest is exactly principal / (termYears * 12) and the total
\* interest paid is 0, in calculateMonthlyPayment and in calculateAmortization.
C15_ZeroRateExact ==
    out.run =>
        /\ ZeroRatePayment = Div(ZeroRatePrincipal, Num(in.loanTermYears * 12))
        /\ IsZero(ZeroRateInterest)

\* C15: at an annual rate of 0 the returned monthly payment of principal and
\* interest is principal / (termYears * 12) rounded to the nearest cent and the
\* total interest paid is 0, in calculateMonthlyPayment and in
\* calculateAmortization.
C15_ZeroRateToTheCent ==
    out.run =>
        /\ ZeroRatePayment = RoundCents(Div(ZeroRatePrincipal, Num(in.loanTermYears * 12)))
        /\ IsZero(ZeroRateInterest)

\* calculateAmortization has returned a payment that is principal / n rounded,
\* and not principal / n itself
C15_Rounded ==
    /\ calc = "calculateAmortization" /\ out.run
    /\ ZeroRatePayment # Div(ZeroRatePrincipal, Num(in.loanTermYears * 12))
    /\ ZeroRatePayment = RoundCents(Div(ZeroRatePrincipal, Num(in.loanTermYears * 12)))
    /\ IsZero(ZeroRateInterest)


\* ------------------------------------------------------------------------
\* Home affordability (affordability.ts)
\* ------------------------------------------------------------------------

\* the two values of a JavaScript number that are not finite and that a division
\* by a zero home price produces: 0 / 0 and x / 0 for x > 0
NaN == [special |-> "NaN"]
Infinity == [special |-> "Infinity"]

\* (a / b) * 100 for a >= 0 and b >= 0
PercentOf(a, b) ==
    IF IsZero(b) THEN (IF IsZero(a) THEN NaN ELSE Infinity)
    ELSE Mul(Div(a, b), Num(100))

\* x < y and x >= y for a finite y and an x that may be NaN or Infinity
LtJS(x, y) == IF x = NaN \/ x = Infinity THEN FALSE ELSE Lt(x, y)
GeJS(x, y) == IF x = NaN THEN FALSE ELSE IF x = Infinity THEN TRUE ELSE Ge(x, y)

\* Math.round(x * 10) / 10 for an x that may be NaN or Infinity
RoundTenthsJS(x) == IF x = NaN \/ x = Infinity THEN x ELSE RoundTenths(x)

\* the defaults of calculateAffordability's optional inputs
propertyTaxRate == Dec(12, 10)
homeownersInsuranceRate == Dec(35, 100)
pmiRate == Dec(5, 10)
hoaMonthly == Zero

\* for (let i = 0; i < 50; i++)
SearchIterations == 50

calculateMonthlyBreakdown(loanAmount, homePrice, annualRate, termYears, downPaymentPercent) ==
    LET totalPayments == termYears * 12
        Payment(monthlyRate, factor) ==
            Div(Mul(Mul(loanAmount, monthlyRate), factor), Sub(factor, One))
        PrincipalAndInterest(monthlyRate) ==
            IF IsZero(monthlyRate) THEN Div(loanAmount, Num(totalPayments))
            ELSE Payment(monthlyRate, MathPow(Add(One, monthlyRate), totalPayments))
        Breakdown(principalAndInterest, propertyTax, homeownersInsurance, pmi) ==
            [principalAndInterest |-> principalAndInterest,
             propertyTax          |-> propertyTax,
             homeownersInsurance  |-> homeownersInsurance,
             pmi                  |-> pmi,
             hoa                  |-> hoaMonthly,
             total |-> Add(Add(Add(Add(principalAndInterest, propertyTax),
                                   homeownersInsurance), pmi), hoaMonthly)]
    IN  Breakdown(
            PrincipalAndInterest(Div(Div(annualRate, Num(100)), Num(12))),
            Div(Div(Mul(homePrice, propertyTaxRate), Num(100)), Num(12)),
            Div(Div(Mul(homePrice, homeownersInsuranceRate), Num(100)), Num(12)),
            IF LtJS(downPaymentPercent, Num(20))
            THEN Div(Div(Mul(loanAmount, pmiRate), Num(100)), Num(12))
            ELSE Zero)

\* the housing budget with the existing debts left out
availableForHousingIgnoringDebt(inputs) ==
    Mul(Div(inputs.annualGrossIncome, Num(12)), Dec(28, 100))

\* the housing budget with the operands of the back-end subtraction swapped
availableForHousingSwapped(inputs) ==
    LET Budget(monthlyIncome) ==
            MathMin(Mul(monthlyIncome, Dec(28, 100)),
                    Sub(inputs.monthlyDebtPayments, Mul(monthlyIncome, Dec(36, 100))))
    IN  Budget(Div(inputs.annualGrossIncome, Num(12)))

\* min(28% of the monthly income, 36% of it less the existing debt payments)
availableForHousing(inputs) ==
    LET Budget(monthlyIncome) ==
            MathMin(Mul(monthlyIncome, Dec(28, 100)),
                    Sub(Mul(monthlyIncome, Dec(36, 100)), inputs.monthlyDebtPayments))
    IN  Budget(Div(inputs.annualGrossIncome, Num(12)))

\* the locals of findMaxHomePrice, called from calculateAffordability, when it
\* reaches its loop
findMaxHomePriceLocals(inputs) ==
    LET Locals(maxMonthlyPayment) ==
            [run               |-> TRUE,
             maxMonthlyPayment |-> maxMonthlyPayment,
             low               |-> Zero,
             high              |-> Mul(Mul(maxMonthlyPayment, Num(12)), Num(30)),
             i                 |-> 0]
    IN  Locals(MathMax(Zero, availableForHousing(inputs)))

\* one pass of the binary search, i++ included
findMaxHomePricePass(l, inputs) ==
    LET Halve(mid, breakdown) ==
            IF Lt(breakdown.total, l.maxMonthlyPayment)
            THEN [l EXCEPT !.low = mid, !.i = l.i + 1]
            ELSE [l EXCEPT !.high = mid, !.i = l.i + 1]
        Try(mid) ==
            Halve(mid, calculateMonthlyBreakdown(
                           MathMax(Zero, Sub(mid, inputs.downPaymentAvailable)), mid,
                           inputs.annualInterestRate, inputs.loanTermYears,
                           PercentOf(inputs.downPaymentAvailable, mid)))
    IN  Try(Div(Add(l.low, l.high), Num(2)))

\* the score starts at 100; the front-end, back-end, down-payment and debt
\* adjustments are applied in this order, then the result is rounded and clamped
calculateAffordabilityScore(frontEndRatio, backEndRatio, downPaymentPercent, debtToIncomeRatio) ==
    LET Clamp(score) == MathMax(Zero, MathMin(Num(100), MathRound(score)))
        Debt(score) ==
            Clamp(IF Gt(debtToIncomeRatio, Num(15))
                  THEN Sub(score, MathMin(Num(20),
                                          Mul(Sub(debtToIncomeRatio, Num(15)), Num(2))))
                  ELSE score)
        DownPayment(score) ==
            Debt(IF GeJS(downPaymentPercent, Num(20)) THEN Add(score, Num(10))
                 ELSE IF LtJS(downPaymentPercent, Num(10)) THEN Sub(score, Num(15))
                 ELSE score)
        BackEnd(score) ==
            DownPayment(IF Gt(backEndRatio, Num(36))
                        THEN Sub(score, MathMin(Num(30),
                                                Mul(Sub(backEndRatio, Num(36)), Num(3))))
                        ELSE score)
        FrontEnd(score) ==
            BackEnd(IF Gt(frontEndRatio, Num(28))
                    THEN Sub(score, MathMin(Num(30),
                                            Mul(Sub(frontEndRatio, Num(28)), Num(3))))
                    ELSE score)
    IN  FrontEnd(Num(100))

\* the recommendations, each named by what it says rather than by its full text
generateRecommendations(frontEndRatio, backEndRatio, downPaymentPercent, monthlyDebtPayments, monthlyIncome) ==
    (IF Gt(frontEndRatio, Num(28)) THEN <<"housing costs above 28%">> ELSE <<>>)
    \o (IF Gt(backEndRatio, Num(36)) THEN <<"total debt above 36%">> ELSE <<>>)
    \o (IF LtJS(downPaymentPercent, Num(20)) THEN <<"PMI below 20% down">> ELSE <<>>)
    \o (IF LtJS(downPaymentPercent, Num(10)) THEN <<"aim for 10% down">> ELSE <<>>)
    \o (IF Gt(monthlyDebtPayments, Mul(monthlyIncome, Dec(15, 100)))
        THEN <<"pay off high-interest debt">> ELSE <<>>)
    \o (IF GeJS(downPaymentPercent, Num(20)) THEN <<"20% or more down">> ELSE <<>>)
    \o (IF Le(frontEndRatio, Num(25)) /\ Le(backEndRatio, Num(30))
        THEN <<"strong financial position">> ELSE <<>>)

\* the record calculateAffordability returns once findMaxHomePrice has returned low
calculateAffordabilityResult(l, inputs) ==
    LET maxHomePrice == l.low
        Record(monthlyIncome, downPaymentPercent, loanAmount, monthlyBreakdown,
               frontEndRatio, backEndRatio, savingsNeededForDownPayment) ==
            [run               |-> TRUE,
             maxHomePrice      |-> MathRound(maxHomePrice),
             maxMonthlyPayment |-> RoundCents(monthlyBreakdown.total),
             monthlyIncome     |-> MathRound(monthlyIncome),
             frontEndRatio     |-> RoundTenths(frontEndRatio),
             backEndRatio      |-> RoundTenths(backEndRatio),
             downPaymentPercent |-> RoundTenthsJS(downPaymentPercent),
             loanAmount        |-> MathRound(loanAmount),
             estimatedMonthlyBreakdown |->
                 [principalAndInterest |->
                      RoundCents(monthlyBreakdown.principalAndInterest),
                  propertyTax          |-> RoundCents(monthlyBreakdown.propertyTax),
                  homeownersInsurance  |->
                      RoundCents(monthlyBreakdown.homeownersInsurance),
                  pmi                  |-> RoundCents(monthlyBreakdown.pmi),
                  hoa                  |-> RoundCents(monthlyBreakdown.hoa),
                  total                |-> RoundCents(monthlyBreakdown.total)],
             canAffordHome     |->
                 Gt(availableForHousing(inputs), Zero) /\ Gt(maxHomePrice, Zero),
             affordabilityScore |->
                 calculateAffordabilityScore(
                     frontEndRatio, backEndRatio, downPaymentPercent,
                     Div(inputs.monthlyDebtPayments, monthlyIncome)),
             recommendations   |->
                 generateRecommendations(frontEndRatio, backEndRatio,
                                         downPaymentPercent,
                                         inputs.monthlyDebtPayments, monthlyIncome),
             savingsNeededForDownPayment |-> MathRound(savingsNeededForDownPayment),
             monthsToSaveForDownPayment |->
                 IF Gt(savingsNeededForDownPayment, Zero)
                    /\ Gt(inputs.monthlySavingsAvailable, Zero)
                 THEN MathCeil(Div(savingsNeededForDownPayment,
                                   inputs.monthlySavingsAvailable))
                 ELSE IF Gt(savingsNeededForDownPayment, Zero) THEN Num(-1) ELSE Zero]
        Ratios(monthlyIncome, downPaymentPercent, loanAmount, monthlyBreakdown) ==
            Record(monthlyIncome, downPaymentPercent, loanAmount, monthlyBreakdown,
                   Mul(Div(monthlyBreakdown.total, monthlyIncome), Num(100)),
                   Mul(Div(Add(monthlyBreakdown.total, inputs.monthlyDebtPayments),
                           monthlyIncome), Num(100)),
                   MathMax(Zero, Sub(Mul(maxHomePrice, Dec(20, 100)),
                                     inputs.downPaymentAvailable)))
        Breakdown(monthlyIncome, downPaymentPercent, loanAmount) ==
            Ratios(monthlyIncome, downPaymentPercent, loanAmount,
                   calculateMonthlyBreakdown(loanAmount, maxHomePrice,
                                             inputs.annualInterestRate,
                                             inputs.loanTermYears, downPaymentPercent))
    IN  Breakdown(Div(inputs.annualGrossIncome, Num(12)),
                  PercentOf(inputs.downPaymentAvailable, maxHomePrice),
                  Sub(maxHomePrice, inputs.downPaymentAvailable))

\* inputs the mortgage page accepts: income > 0, the other amounts >= 0,
\* rate 0..20, term >= 1.  With an income of 100000 the monthly income is
\* 8333.33: debts of 3000 are exactly 36% of it, debts of 3500 and 4500 more
AffordabilityDebts == {Zero, Num(1500), Num(3000), Num(3500)}

AffordabilityDownPayments == {Zero, Num(60000), Num(600000)}

AffordabilityRates == {Zero, Dec(65, 10)}

AffordabilityTerms == {15, 30}

AffordabilityInputs ==
    [annualGrossIncome       : {Num(100000)},
     monthlyDebtPayments     : AffordabilityDebts,
     downPaymentAvailable    : AffordabilityDownPayments,
     monthlySavingsAvailable : {Num(3000)},
     annualInterestRate      : AffordabilityRates,
     loanTermYears           : AffordabilityTerms]

InitAffordability ==
    /\ calc = "calculateAffordability"
    /\ in \in AffordabilityInputs
    /\ loc = NotRun
    /\ out = NotRun
    /\ prev = NotRun
    /\ now = 0 /\ lastCallTime = 0 /\ callers = <<>> /\ released = <<>>

\* calculateAffordability is called and runs up to the loop of findMaxHomePrice
AffordabilityEnter ==
    /\ calc = "calculateAffordability"
    /\ ~loc.run /\ ~out.run
    /\ loc' = findMaxHomePriceLocals(in)
    /\ UNCHANGED <<calc, in, out, prev, throttleVars>>

\* one pass of the binary search
AffordabilitySearch ==
    /\ calc = "calculateAffordability"
    /\ loc.run /\ loc.i < SearchIterations
    /\ loc' = findMaxHomePricePass(loc, in)
    /\ UNCHANGED <<calc, in, out, prev, throttleVars>>

\* the search is over: findMaxHomePrice returns low, calculateAffordability its record
AffordabilityReturn ==
    /\ calc = "calculateAffordability"
    /\ loc.run /\ ~(loc.i < SearchIterations)
    /\ out' = calculateAffordabilityResult(loc, in)
    /\ loc' = NotRun
    /\ UNCHANGED <<calc, in, prev, throttleVars>>

NextAffordability == AffordabilityEnter \/ AffordabilitySearch \/ AffordabilityReturn

SpecAffordability == InitAffordability /\ [][NextAffordability]_vars

\* a second call with every input the same but larger monthly debt payments
AffordabilityDebtSteps == {Zero, Num(1500), Num(3500), Num(4500)}

AffordabilityDebtInputs ==
    [annualGrossIncome       : {Num(100000)},
     monthlyDebtPayments     : AffordabilityDebtSteps,
     downPaymentAvailable    : {Zero, Num(60000)},
     monthlySavingsAvailable : {Num(3000)},
     annualInterestRate      : {Dec(65, 10)},
     loanTermYears           : {30}]

InitAffordabilityDebt ==
    /\ calc = "calculateAffordability"
    /\ in \in AffordabilityDebtInputs
    /\ loc = NotRun
    /\ out = NotRun
    /\ prev = NotRun
    /\ now = 0 /\ lastCallTime = 0 /\ callers = <<>> /\ released = <<>>

\* the caller keeps the returned record and calls again with larger debts
AffordabilityCallAgain ==
    /\ calc = "calculateAffordability"
    /\ out.run /\ ~prev.run
    /\ \E debt \in AffordabilityDebtSteps :
          /\ Gt(debt, in.monthlyDebtPayments)
          /\ in' = [in EXCEPT !.monthlyDebtPayments = debt]
    /\ prev' = [run |-> TRUE, in |-> in, out |-> out]
    /\ out' = NotRun
    /\ UNCHANGED <<calc, loc, throttleVars>>

NextAffordabilityDebt ==
    \/ AffordabilityEnter
    \/ AffordabilitySearch
    \/ AffordabilityReturn
    \/ AffordabilityCallAgain

SpecAffordabilityDebt == InitAffordabilityDebt /\ [][NextAffordabilityDebt]_vars


\* T(P): the total monthly housing payment at the home price P, as the search
\* of findMaxHomePrice computes it
PaymentAt(inputs, price) ==
    calculateMonthlyBreakdown(
        MathMax(Zero, Sub(price, inputs.downPaymentAvailable)), price,
        inputs.annualInterestRate, inputs.loanTermYears,
        PercentOf(inputs.downPaymentAvailable, price)).total

\* no home price satisfies both limits: the payment is lowest at the price 0,
\* where it is 0, so this is the case where the debt payments alone are more
\* than 36% of the monthly income
NoPriceWithinLimits(inputs) ==
    Gt(inputs.monthlyDebtPayments,
       Mul(Div(inputs.annualGrossIncome, Num(12)), Dec(36, 100)))

\* C5: the returned frontEndRatio is <= 28 and the returned backEndRatio is
\* <= 36, unless no home price satisfies both limits, and then the returned
\* maxHomePrice is 0.
C5_RatiosWithinLimits ==
    (calc = "calculateAffordability" /\ out.run) =>
        IF NoPriceWithinLimits(in)
        THEN IsZero(out.maxHomePrice)
        ELSE Le(out.frontEndRatio, Num(28)) /\ Le(out.backEndRatio, Num(36))

\* a returned record with a positive price, existing debts, and the back-end
\* limit reached
C5_Witness ==
    /\ calc = "calculateAffordability" /\ out.run
    /\ Gt(in.monthlyDebtPayments, Zero)
    /\ Gt(out.maxHomePrice, Zero)
    /\ out.backEndRatio = Num(36)

\* C6: for all inputs the returned maxHomePrice is the maximum home price whose
\* total monthly payment T(P) does not exceed
\* min(0.28 * monthlyIncome, 0.36 * monthlyIncome - monthlyDebtPayments):
\* T(maxHomePrice) is within the limit and no price above maxHomePrice (by more
\* than the residual error of the search, here taken as one dollar, which also
\* covers the rounding of maxHomePrice to a whole dollar) is within it.
\* Stated for the inputs with a positive limit.
C6_MaximalPrice ==
    (calc = "calculateAffordability" /\ out.run /\ Gt(availableForHousing(in), Zero)) =>
        /\ Le(PaymentAt(in, MathMax(Zero, Sub(out.maxHomePrice, One))),
              availableForHousing(in))
        /\ Gt(PaymentAt(in, Add(out.maxHomePrice, One)), availableForHousing(in))

\* a returned price below the down payment although the down payment itself,
\* as a price, is within the limit
C6_PriceBelowDownPayment ==
    /\ calc = "calculateAffordability" /\ out.run
    /\ Gt(availableForHousing(in), Zero)
    /\ Lt(out.maxHomePrice, in.downPaymentAvailable)
    /\ Le(PaymentAt(in, in.downPaymentAvailable), availableForHousing(in))

\* C7: of two inputs that differ only in monthlyDebtPayments, the one with the
\* larger monthlyDebtPayments yields a maxHomePrice less than or equal to that
\* of the other.
C7_MonotoneInDebt ==
    (calc = "calculateAffordability" /\ out.run /\ prev.run
        /\ Gt(in.monthlyDebtPayments, prev.in.monthlyDebtPayments)
        /\ in = [prev.in EXCEPT !.monthlyDebtPayments = in.monthlyDebtPayments]) =>
        Le(out.maxHomePrice, prev.out.maxHomePrice)

\* two returned records, the second for larger debts and with a positive but
\* strictly lower price
C7_Witness ==
    /\ calc = "calculateAffordability" /\ out.run /\ prev.run
    /\ Gt(in.monthlyDebtPayments, prev.in.monthlyDebtPayments)
    /\ Gt(out.maxHomePrice, Zero)
    /\ Lt(out.maxHomePrice, prev.out.maxHomePrice)

\* a number that is neither NaN nor an infinity
IsFinite(x) == x # NaN /\ x # Infinity

\* the numbers C30 names in a returned record are finite and the loan amount is
\* not negative
FiniteRecord(r) ==
    /\ IsFinite(r.downPaymentPercent)
    /\ IsFinite(r.frontEndRatio)
    /\ IsFinite(r.backEndRatio)
    /\ IsFinite(r.affordabilityScore)
    /\ IsFinite(r.estimatedMonthlyBreakdown.principalAndInterest)
    /\ IsFinite(r.estimatedMonthlyBreakdown.propertyTax)
    /\ IsFinite(r.estimatedMonthlyBreakdown.homeownersInsurance)
    /\ IsFinite(r.estimatedMonthlyBreakdown.pmi)
    /\ IsFinite(r.estimatedMonthlyBreakdown.hoa)
    /\ IsFinite(r.estimatedMonthlyBreakdown.total)
    /\ Ge(r.loanAmount, Zero)

\* C30: for non-negative inputs with a positive income calculateAffordability
\* returns only finite numbers in downPaymentPercent, frontEndRatio,
\* backEndRatio, affordabilityScore and the monthly breakdown, and a loanAmount
\* that is not negative, also when no home is affordable and maxHomePrice is 0.
C30_FiniteNumbers ==
    (calc = "calculateAffordability" /\ out.run) => FiniteRecord(out)

\* a record with a positive home price has been returned, with finite numbers
\* and a loan amount that is not negative
C30_AffordableFinite ==
    /\ calc = "calculateAffordability" /\ out.run
    /\ Gt(out.maxHomePrice, Zero)
    /\ Gt(in.monthlyDebtPayments, Zero)
    /\ FiniteRecord(out)


\* ------------------------------------------------------------------------
\* Refinance break-even (refinance.ts)
\* ------------------------------------------------------------------------

\* the integer a number holds, for a whole number from 0 to Base^2 - 1
IntOf(x) == x.mag[FracLimbs + 1] + Base * x.mag[FracLimbs + 2]

\* calculateMonthlyPayment of refinance.ts
Refinance_calculateMonthlyPayment(loanAmount, annualRate, termYears) ==
    LET Payment(monthlyRate, factor) ==
            Div(Mul(Mul(loanAmount, monthlyRate), factor), Sub(factor, One))
        AtRate(monthlyRate) ==
            IF IsZero(monthlyRate)
            THEN Div(loanAmount, Num(termYears * 12))
            ELSE Payment(monthlyRate, MathPow(Add(One, monthlyRate), termYears * 12))
    IN  AtRate(Div(Div(annualRate, Num(100)), Num(12)))

calculateTotalInterest(loanAmount, annualRate, termYears) ==
    Sub(Mul(Refinance_calculateMonthlyPayment(loanAmount, annualRate, termYears),
            Num(termYears * 12)),
        loanAmount)

\* no call of calculateInterestOverPeriod is going on
NoCall == [returnTo |-> "none"]

\* the locals of calculateInterestOverPeriod when it reaches its loop; returnTo
\* names the place in the caller that takes the returned value
calculateInterestOverPeriodLocals(loanAmount, annualRate, years, returnTo) ==
    [monthlyRate    |-> Div(Div(annualRate, Num(100)), Num(12)),
     totalPayments  |-> years * 12,
     monthlyPayment |-> Refinance_calculateMonthlyPayment(loanAmount, annualRate, years),
     balance        |-> loanAmount,
     totalInterest  |-> Zero,
     i              |-> 0,
     returnTo       |-> returnTo]

\* one pass of the loop of calculateInterestOverPeriod, i++ included
calculateInterestOverPeriodPass(c) ==
    LET Pay(interest) ==
            [c EXCEPT
                !.balance = MathMax(Zero, Sub(c.balance, Sub(c.monthlyPayment, interest))),
                !.totalInterest = Add(c.totalInterest, interest),
                !.i = c.i + 1]
    IN  Pay(Mul(c.balance, c.monthlyRate))

\* if (monthlySavings > 0) Math.ceil(closingCosts / monthlySavings) else -1
breakEvenMonths(closingCosts, monthlySavings) ==
    IF Gt(monthlySavings, Zero)
    THEN MathCeil(Div(closingCosts, monthlySavings))
    ELSE Num(-1)

\* the locals of calculateRefinance when it has called generateCumulativeSavings
\* and that has reached its loop
calculateRefinanceLocals(inputs) ==
    LET Locals(currentRemainingYears, currentMonthlyPayment, newLoanAmount,
               newMonthlyPayment, monthlySavings) ==
            [run                      |-> TRUE,
             pc                       |-> "generateCumulativeSavings",
             currentRemainingYears    |-> currentRemainingYears,
             currentMonthlyPayment    |-> currentMonthlyPayment,
             newLoanAmount            |-> newLoanAmount,
             newMonthlyPayment        |-> newMonthlyPayment,
             monthlySavings           |-> monthlySavings,
             breakEvenMonths          |-> breakEvenMonths(inputs.closingCosts,
                                                          monthlySavings),
             maxYears                 |-> Max2(currentRemainingYears,
                                               inputs.newLoanTermYears),
             year                     |-> 1,
             cumulativeMonthlySavings |-> Neg(inputs.closingCosts),
             savings                  |-> <<>>,
             currentInterest          |-> Zero,
             call                     |-> NoCall]
        Savings(currentRemainingYears, currentMonthlyPayment, newLoanAmount,
                newMonthlyPayment) ==
            Locals(currentRemainingYears, currentMonthlyPayment, newLoanAmount,
                   newMonthlyPayment, Sub(currentMonthlyPayment, newMonthlyPayment))
        Payments(currentRemainingYears, newLoanAmount) ==
            Savings(currentRemainingYears,
                    Refinance_calculateMonthlyPayment(inputs.currentLoanAmount,
                                                      inputs.currentInterestRate,
                                                      currentRemainingYears),
                    newLoanAmount,
                    Refinance_calculateMonthlyPayment(newLoanAmount,
                                                      inputs.newInterestRate,
                                                      inputs.newLoanTermYears))
    IN  Payments(IntOf(MathCeil(inputs.yearsRemainingOnCurrentLoan)),
                 Add(inputs.currentLoanAmount, inputs.cashOutAmount))

\* the head of a pass of the loop of generateCumulativeSavings: the savings of
\* the year are added and calculateInterestOverPeriod is called for currentInterest
generateCumulativeSavingsYear(l, inputs) ==
    [l EXCEPT
        !.cumulativeMonthlySavings =
            IF l.year <= l.currentRemainingYears /\ Gt(l.monthlySavings, Zero)
            THEN Add(l.cumulativeMonthlySavings, Mul(l.monthlySavings, Num(12)))
            ELSE l.cumulativeMonthlySavings,
        !.pc = "calculateInterestOverPeriod",
        !.call = calculateInterestOverPeriodLocals(
                     inputs.currentLoanAmount, inputs.currentInterestRate,
                     IF l.year <= l.currentRemainingYears
                     THEN l.year ELSE l.currentRemainingYears,
                     "currentInterest")]

\* the rest of the pass, once newInterest is returned: the entry is pushed, year++
generateCumulativeSavingsPush(l) ==
    LET Push(cumulativeInterestDifference) ==
            [l EXCEPT
                !.savings = Append(l.savings,
                    [year                         |-> l.year,
                     cumulativeMonthlySavings     |-> MathRound(l.cumulativeMonthlySavings),
                     cumulativeInterestDifference |-> MathRound(cumulativeInterestDifference),
                     netPosition                  |->
                         MathRound(Add(l.cumulativeMonthlySavings,
                                       Mul(cumulativeInterestDifference, Half)))]),
                !.year = l.year + 1,
                !.pc   = "generateCumulativeSavings",
                !.call = NoCall]
    IN  Push(Sub(l.currentInterest, l.call.totalInterest))

\* Math.min(Math.ceil(yearsRemainingOnCurrentLoan), newLoanTermYears)
comparisonYears(l, inputs) == Min2(l.currentRemainingYears, inputs.newLoanTermYears)

\* the record calculateRefinance returns, the second calculateInterestOverPeriod
\* of totalInterestSavedOverTerm having returned
calculateRefinanceResult(l, inputs) ==
    LET Record(currentTotalInterestRemaining, newTotalInterest) ==
            [run                     |-> TRUE,
             currentMonthlyPayment   |-> RoundCents(l.currentMonthlyPayment),
             newMonthlyPayment       |-> RoundCents(l.newMonthlyPayment),
             monthlySavings          |-> RoundCents(l.monthlySavings),
             totalClosingCosts       |-> inputs.closingCosts,
             breakEvenMonths         |-> l.breakEvenMonths,
             breakEvenYears          |-> RoundTenths(Div(l.breakEvenMonths, Num(12))),
             totalInterestSaved      |->
                 MathRound(Sub(currentTotalInterestRemaining, newTotalInterest)),
             totalInterestSavedOverTerm |->
                 MathRound(Sub(l.currentInterest, l.call.totalInterest)),
             isWorthRefinancing      |->
                 /\ Gt(l.monthlySavings, Zero)
                 /\ Gt(l.breakEvenMonths, Zero)
                 /\ Lt(l.breakEvenMonths, Num(120)),
             currentTotalInterestRemaining |-> MathRound(currentTotalInterestRemaining),
             newTotalInterest        |-> MathRound(newTotalInterest),
             newLoanAmount           |-> MathRound(l.newLoanAmount),
             cumulativeSavings       |-> l.savings]
    IN  Record(calculateTotalInterest(inputs.currentLoanAmount,
                                      inputs.currentInterestRate,
                                      l.currentRemainingYears),
               calculateTotalInterest(l.newLoanAmount, inputs.newInterestRate,
                                      inputs.newLoanTermYears))

\* a call of calculateRefinance as the mortgage page makes it: the current term
\* 30 years, no cash out
RefinanceCall(amount, currentRate, yearsRemaining, newRate, newTerm, closingCosts) ==
    [currentLoanAmount           |-> amount,
     currentInterestRate         |-> currentRate,
     currentLoanTermYears        |-> 30,
     yearsRemainingOnCurrentLoan |-> yearsRemaining,
     newInterestRate             |-> newRate,
     newLoanTermYears            |-> newTerm,
     closingCosts                |-> closingCosts,
     cashOutAmount               |-> Zero]

\* the calls: a lower rate for the same term; a higher rate (the payment goes
\* up), 2.5 years remaining; a lower rate for a longer term; a new loan without
\* interest and without closing costs; a lower rate for a shorter term, the two
\* payments less than a cent apart
RefinanceInputs ==
    {RefinanceCall(Num(180000), Dec(41, 8), Num(3), Dec(39, 8), 3, Num(10000)),
     RefinanceCall(Num(180000), Dec(39, 8), Dec(5, 2), Dec(41, 8), 3, Num(6000)),
     RefinanceCall(Num(180000), Num(7), Num(3), Num(5), 4, Num(2000)),
     RefinanceCall(Num(120000), Dec(27, 4), Num(3), Zero, 3, Zero),
     RefinanceCall(Num(100000), Dec(59, 8), Num(12), Dec(19, 4), 10, Num(6000))}

InitRefinance ==
    /\ calc = "calculateRefinance"
    /\ in \in RefinanceInputs
    /\ loc = NotRun
    /\ out = NotRun
    /\ prev = NotRun
    /\ now = 0 /\ lastCallTime = 0 /\ callers = <<>> /\ released = <<>>

\* calculateRefinance is called and runs up to the loop of generateCumulativeSavings
RefinanceEnter ==
    /\ calc = "calculateRefinance"
    /\ ~loc.run /\ ~out.run
    /\ loc' = calculateRefinanceLocals(in)
    /\ UNCHANGED <<calc, in, out, prev, throttleVars>>

\* a pass of the loop of generateCumulativeSavings begins
RefinanceSavingsYear ==
    /\ calc = "calculateRefinance"
    /\ loc.run /\ loc.pc = "generateCumulativeSavings"
    /\ loc.year <= loc.maxYears
    /\ loc' = generateCumulativeSavingsYear(loc, in)
    /\ UNCHANGED <<calc, in, out, prev, throttleVars>>

\* one pass of the loop of calculateInterestOverPeriod
RefinanceInterestPass ==
    /\ calc = "calculateRefinance"
    /\ loc.run /\ loc.pc = "calculateInterestOverPeriod"
    /\ loc.call.i < loc.call.totalPayments
    /\ loc' = [loc EXCEPT !.call = calculateInterestOverPeriodPass(loc.call)]
    /\ UNCHANGED <<calc, in, out, prev, throttleVars>>

\* currentInterest is returned; calculateInterestOverPeriod is called for newInterest
RefinanceCurrentInterest ==
    /\ calc = "calculateRefinance"
    /\ loc.run /\ loc.pc = "calculateInterestOverPeriod"
    /\ ~(loc.call.i < loc.call.totalPayments)
    /\ loc.call.returnTo = "currentInterest"
    /\ loc' = [loc EXCEPT
                  !.currentInterest = loc.call.totalInterest,
                  !.call = calculateInterestOverPeriodLocals(
                               loc.newLoanAmount, in.newInterestRate,
                               Min2(loc.year, in.newLoanTermYears), "newInterest")]
    /\ UNCHANGED <<calc, in, out, prev, throttleVars>>

\* newInterest is returned; the pass of generateCumulativeSavings ends
RefinanceSavingsPush ==
    /\ calc = "calculateRefinance"
    /\ loc.run /\ loc.pc = "calculateInterestOverPeriod"
    /\ ~(loc.call.i < loc.call.totalPayments)
    /\ loc.call.returnTo = "newInterest"
    /\ loc' = generateCumulativeSavingsPush(loc)
    /\ UNCHANGED <<calc, in, out, prev, throttleVars>>

\* generateCumulativeSavings returns; calculateInterestOverPeriod is called for
\* the current loan over the comparison years
RefinanceOverTerm ==
    /\ calc = "calculateRefinance"
    /\ loc.run /\ loc.pc = "generateCumulativeSavings"
    /\ ~(loc.year <= loc.maxYears)
    /\ loc' = [loc EXCEPT
                  !.pc = "calculateInterestOverPeriod",
                  !.call = calculateInterestOverPeriodLocals(
                               in.currentLoanAmount, in.currentInterestRate,
                               comparisonYears(loc, in), "overTermCurrent")]
    /\ UNCHANGED <<calc, in, out, prev, throttleVars>>

\* that is returned; calculateInterestOverPeriod is called for the new loan
RefinanceOverTermNew ==
    /\ calc = "calculateRefinance"
    /\ loc.run /\ loc.pc = "calculateInterestOverPeriod"
    /\ ~(loc.call.i < loc.call.totalPayments)
    /\ loc.call.returnTo = "overTermCurrent"
    /\ loc' = [loc EXCEPT
                  !.currentInterest = loc.call.totalInterest,
                  !.call = calculateInterestOverPeriodLocals(
                               loc.newLoanAmount, in.newInterestRate,
                               comparisonYears(loc, in), "overTermNew")]
    /\ UNCHANGED <<calc, in, out, prev, throttleVars>>

\* that is returned too, and calculateRefinance returns its record
RefinanceReturn ==
    /\ calc = "calculateRefinance"
    /\ loc.run /\ loc.pc = "calculateInterestOverPeriod"
    /\ ~(loc.call.i < loc.call.totalPayments)
    /\ loc.call.returnTo = "overTermNew"
    /\ out' = calculateRefinanceResult(loc, in)
    /\ loc' = NotRun
    /\ UNCHANGED <<calc, in, prev, throttleVars>>

NextRefinance ==
    \/ RefinanceEnter
    \/ RefinanceSavingsYear
    \/ RefinanceInterestPass
    \/ RefinanceCurrentInterest
    \/ RefinanceSavingsPush
    \/ RefinanceOverTerm
    \/ RefinanceOverTermNew
    \/ RefinanceReturn

SpecRefinance == InitRefinance /\ [][NextRefinance]_vars


\* C8: in every record calculateRefinance returns, a new monthly payment that is
\* not below the current one comes with breakEvenMonths -1 and isWorthRefinancing
\* false
C8_NoBreakEvenWithoutSavings ==
    (calc = "calculateRefinance" /\ out.run
        /\ Ge(out.newMonthlyPayment, out.currentMonthlyPayment))
    => (out.breakEvenMonths = Num(-1) /\ ~out.isWorthRefinancing)

\* a returned record in which the payment goes up by a cent or more
C8_PaymentIncreases ==
    /\ calc = "calculateRefinance" /\ out.run
    /\ Gt(out.newMonthlyPayment, out.currentMonthlyPayment)
    /\ out.breakEvenMonths = Num(-1)

\* C9: in every record calculateRefinance returns with monthlySavings above 0,
\* breakEvenMonths is the ceiling of closingCosts / monthlySavings, taken from
\* the totalClosingCosts and monthlySavings of that record
C9_BreakEvenFromRecord ==
    (calc = "calculateRefinance" /\ out.run /\ Gt(out.monthlySavings, Zero))
    => out.breakEvenMonths = MathCeil(Div(out.totalClosingCosts, out.monthlySavings))

\* a returned record with savings whose breakEvenMonths is that ceiling
C9_BreakEvenAgrees ==
    /\ calc = "calculateRefinance" /\ out.run
    /\ Gt(out.monthlySavings, Zero)
    /\ Gt(out.totalClosingCosts, Zero)
    /\ out.breakEvenMonths = MathCeil(Div(out.totalClosingCosts, out.monthlySavings))

\* ------------------------------------------------------------------------
\* Fixed rate against adjustable rate (refinance.ts, its second part)
\* ------------------------------------------------------------------------

\* calculateMonthlyPayment of the rate comparison
RateComparison_calculateMonthlyPayment(loanAmount, annualRate, termYears) ==
    LET Payment(monthlyRate, factor) ==
            Div(Mul(Mul(loanAmount, monthlyRate), factor), Sub(factor, One))
        AtRate(monthlyRate) ==
            IF IsZero(monthlyRate)
            THEN Div(loanAmount, Num(termYears * 12))
            ELSE Payment(monthlyRate, MathPow(Add(One, monthlyRate), termYears * 12))
    IN  AtRate(Div(Div(annualRate, Num(100)), Num(12)))

\* the locals of calculateRemainingBalance when it reaches its loop; returnTo
\* names the place in the caller that takes the returned value
calculateRemainingBalanceLocals(loanAmount, annualRate, termYears, elapsed, returnTo) ==
    [monthlyRate    |-> Div(Div(annualRate, Num(100)), Num(12)),
     monthlyPayment |-> RateComparison_calculateMonthlyPayment(loanAmount, annualRate,
                                                               termYears),
     balance        |-> loanAmount,
     i              |-> 0,
     passes         |-> elapsed * 12,
     returnTo       |-> returnTo]

\* one pass of the loop of calculateRemainingBalance, i++ included
calculateRemainingBalancePass(c) ==
    LET Pay(interest) ==
            [c EXCEPT
                !.balance = MathMax(Zero, Sub(c.balance, Sub(c.monthlyPayment, interest))),
                !.i = c.i + 1]
    IN  Pay(Mul(c.balance, c.monthlyRate))

calculateFixedRate(inputs) ==
    LET Result(monthlyPayment) ==
            [monthlyPayment |-> RoundCents(monthlyPayment),
             totalInterest  |-> MathRound(Sub(Mul(monthlyPayment,
                                                  Num(inputs.loanTermYears * 12)),
                                              inputs.loanAmount)),
             totalPayments  |-> inputs.loanTermYears * 12]
    IN  Result(RateComparison_calculateMonthlyPayment(inputs.loanAmount,
                                                      inputs.interestRate,
                                                      inputs.loanTermYears))

\* the adjusted rate without the lifetime cap
ARMAdjustedRateUncapped(currentRate, inputs) ==
    Add(currentRate, MathMin(inputs.expectedRateAdjustment, inputs.rateCapPerAdjustment))

\* the rate after an adjustment: the expected adjustment, at most the cap per
\* adjustment, added, and the sum at most initialRate + lifetimeRateCap
ARMAdjustedRate(currentRate, inputs) ==
    MathMin(Add(currentRate,
                MathMin(inputs.expectedRateAdjustment, inputs.rateCapPerAdjustment)),
            Add(inputs.initialRate, inputs.lifetimeRateCap))

\* currentRate as the head of the loop body of calculateARM sets it for the year
ARMRateForYear(currentRate, year, inputs) ==
    IF year <= inputs.initialPeriodYears THEN inputs.initialRate
    ELSE IF (year - inputs.initialPeriodYears) % inputs.adjustmentIntervalYears = 0
         THEN ARMAdjustedRate(currentRate, inputs)
         ELSE currentRate

\* the locals of compareRates and of the calculateARM it calls, when that
\* reaches its loop; ratesInForce is no variable of the code: it keeps the
\* currentRate of each projected year
calculateARMLocals(fixedInputs, inputs) ==
    [run                      |-> TRUE,
     pc                       |-> "projection",
     fixed                    |-> calculateFixedRate(fixedInputs),
     loanTermYears            |-> fixedInputs.loanTermYears,
     initialMonthlyPayment    |->
         RateComparison_calculateMonthlyPayment(inputs.loanAmount, inputs.initialRate,
                                                fixedInputs.loanTermYears),
     projectedMonthlyPayments |-> <<>>,
     ratesInForce             |-> <<>>,
     currentRate              |-> inputs.initialRate,
     totalInterestProjected   |-> Zero,
     balance                  |-> inputs.loanAmount,
     year                     |-> 1,
     month                    |-> 0,
     monthlyPayment           |-> Zero,
     worstCaseMonthlyPayment  |-> Zero,
     worstCasePayment         |-> Zero,
     worstCaseInterest        |-> Zero,
     worstCaseBalance         |-> inputs.loanAmount,
     call                     |-> NoCall]

\* the head of a pass of the loop of calculateARM: the rate of the year, and
\* the call of calculateRemainingBalance
calculateARMYear(l, inputs) ==
    LET Call(currentRate) ==
            [l EXCEPT
                !.currentRate = currentRate,
                !.pc   = "calculateRemainingBalance",
                !.call = calculateRemainingBalanceLocals(
                             inputs.loanAmount,
                             IF l.year <= inputs.initialPeriodYears
                             THEN inputs.initialRate ELSE currentRate,
                             l.loanTermYears, l.year - 1, "projection")]
    IN  Call(ARMRateForYear(l.currentRate, l.year, inputs))

\* the remaining balance is returned: the payment of the year is computed and
\* pushed, and the loop over the months of the year is reached
calculateARMPayment(l) ==
    LET Push(monthlyPayment) ==
            [l EXCEPT
                !.monthlyPayment = monthlyPayment,
                !.projectedMonthlyPayments = Append(l.projectedMonthlyPayments,
                                                    RoundCents(monthlyPayment)),
                !.ratesInForce = Append(l.ratesInForce, l.currentRate),
                !.month = 0,
                !.pc    = "interest",
                !.call  = NoCall]
    IN  Push(RateComparison_calculateMonthlyPayment(l.call.balance, l.currentRate,
                                                    l.loanTermYears - (l.year - 1)))

\* one pass of the loop over the months, month++ included; after the twelfth
\* pass the pass of the loop over the years ends: year++
calculateARMMonth(l, inputs) ==
    LET Pay(interest) ==
            [l EXCEPT
                !.balance = MathMax(Zero,
                    Sub(l.balance,
                        Sub(IF l.year <= inputs.initialPeriodYears
                            THEN l.initialMonthlyPayment ELSE l.monthlyPayment,
                            interest))),
                !.totalInterestProjected = Add(l.totalInterestProjected, interest),
                !.month = IF l.month + 1 < 12 THEN l.month + 1 ELSE 0,
                !.year  = IF l.month + 1 < 12 THEN l.year ELSE l.year + 1,
                !.pc    = IF l.month + 1 < 12 THEN "interest" ELSE "projection"]
    IN  Pay(Mul(l.balance, Div(Div(l.currentRate, Num(100)), Num(12))))

\* initialRate + lifetimeRateCap
worstCaseRate(inputs) == Add(inputs.initialRate, inputs.lifetimeRateCap)

\* the remaining balance after the initial period is returned:
\* worstCaseMonthlyPayment is computed and the loops of the initial period of
\* the worst case are reached
calculateARMWorstCase(l, inputs) ==
    [l EXCEPT
        !.worstCaseMonthlyPayment =
            RateComparison_calculateMonthlyPayment(
                l.call.balance, worstCaseRate(inputs),
                l.loanTermYears - inputs.initialPeriodYears),
        !.year  = 1,
        !.month = 0,
        !.pc    = "worstCaseInitial",
        !.call  = NoCall]

\* one pass of a loop over the months of the worst case at the rate and with
\* the payment given, month++ included, and year++ after the twelfth pass
calculateARMWorstCaseMonth(l, annualRate, payment) ==
    LET Pay(interest) ==
            [l EXCEPT
                !.worstCaseBalance = MathMax(Zero,
                    Sub(l.worstCaseBalance, Sub(payment, interest))),
                !.worstCaseInterest = Add(l.worstCaseInterest, interest),
                !.month = IF l.month + 1 < 12 THEN l.month + 1 ELSE 0,
                !.year  = IF l.month + 1 < 12 THEN l.year ELSE l.year + 1]
    IN  Pay(Mul(l.worstCaseBalance, Div(Div(annualRate, Num(100)), Num(12))))

\* the record calculateARM returns
calculateARMResult(l) ==
    [initialMonthlyPayment    |-> RoundCents(l.initialMonthlyPayment),
     worstCaseMonthlyPayment  |-> RoundCents(l.worstCasePayment),
     projectedMonthlyPayments |-> l.projectedMonthlyPayments,
     totalInterestProjected   |-> MathRound(l.totalInterestProjected),
     totalInterestWorstCase   |-> MathRound(l.worstCaseInterest)]

\* the locals of compareRates when calculateARM has returned and the loop over
\* the scenarios is reached
compareRatesLocals(l) ==
    [run               |-> TRUE,
     pc                |-> "scenarios",
     fixed             |-> l.fixed,
     arm               |-> calculateARMResult(l),
     ratesInForce      |-> l.ratesInForce,
     currentRate       |-> l.currentRate,
     loanTermYears     |-> l.loanTermYears,
     year              |-> 1,
     cumulativeSavings |-> Zero,
     breakEvenYear     |-> -1,
     scenarios         |-> <<>>]

\* armRate of the scenario of a year
scenarioArmRate(year, armInputs) ==
    IF year <= armInputs.initialPeriodYears THEN armInputs.initialRate
    ELSE MathMin(Add(armInputs.initialRate,
                     Mul(MathCeil(Div(Num(year - armInputs.initialPeriodYears),
                                      Num(armInputs.adjustmentIntervalYears))),
                         armInputs.expectedRateAdjustment)),
                 Add(armInputs.initialRate, armInputs.lifetimeRateCap))

\* one pass of the loop over the scenarios, year++ included
compareRatesScenario(l, armInputs) ==
    LET Push(armPayment, cumulativeSavings) ==
            [l EXCEPT
                !.cumulativeSavings = cumulativeSavings,
                !.scenarios = Append(l.scenarios,
                    [year              |-> l.year,
                     fixedPayment      |-> l.fixed.monthlyPayment,
                     armPayment        |-> armPayment,
                     armRate           |-> scenarioArmRate(l.year, armInputs),
                     cumulativeSavings |-> MathRound(cumulativeSavings)]),
                !.breakEvenYear =
                    IF l.breakEvenYear = -1 /\ Gt(armPayment, l.fixed.monthlyPayment)
                    THEN l.year ELSE l.breakEvenYear,
                !.year = l.year + 1]
        Year(armPayment) ==
            Push(armPayment,
                 Add(l.cumulativeSavings,
                     Mul(Sub(l.fixed.monthlyPayment, armPayment), Num(12))))
    IN  Year(IF l.year <= armInputs.initialPeriodYears
             THEN l.arm.initialMonthlyPayment
             ELSE l.arm.projectedMonthlyPayments[l.year])

\* recommendation and riskLevel; savingsRatio, which the code computes and
\* does not use, is left out
compareRatesRecommendation(l, armInputs, initialSavings, armRateDifferential) ==
    IF l.breakEvenYear > 0 /\ l.breakEvenYear <= armInputs.initialPeriodYears + 2
    THEN [recommendation |-> "fixed", riskLevel |-> "medium"]
    ELSE IF /\ armInputs.initialPeriodYears >= 7
            /\ Lt(armRateDifferential, Mul(l.fixed.monthlyPayment, Dec(3, 10)))
    THEN [recommendation |-> "arm", riskLevel |-> "low"]
    ELSE IF /\ armInputs.initialPeriodYears >= 5
            /\ Lt(armRateDifferential, Mul(l.fixed.monthlyPayment, Dec(5, 10)))
    THEN [recommendation |-> "arm", riskLevel |-> "medium"]
    ELSE IF armInputs.initialPeriodYears >= 3 /\ Gt(initialSavings, Zero)
    THEN [recommendation |-> "neutral", riskLevel |-> "high"]
    ELSE [recommendation |-> "fixed", riskLevel |-> "low"]

\* the record compareRates returns; ratesInForce is no field of it
compareRatesResult(l, armInputs) ==
    LET Record(initialSavings, advice) ==
            [run          |-> TRUE,
             fixedRate    |-> l.fixed,
             arm          |-> l.arm,
             comparison   |->
                 [initialSavings       |-> RoundCents(initialSavings),
                  breakEvenYear        |-> l.breakEvenYear,
                  totalSavingsOverTerm |-> MathRound(l.cumulativeSavings),
                  recommendation       |-> advice.recommendation,
                  riskLevel            |-> advice.riskLevel],
             scenarios    |-> l.scenarios,
             ratesInForce |-> l.ratesInForce]
        Advise(initialSavings) ==
            Record(initialSavings,
                   compareRatesRecommendation(
                       l, armInputs, initialSavings,
                       Sub(l.arm.worstCaseMonthlyPayment, l.arm.initialMonthlyPayment)))
    IN  Advise(Sub(l.fixed.monthlyPayment, l.arm.initialMonthlyPayment))

\* the term of the loans compared, in years
RateTermYears == 6

RateInitialPeriods == {1, 3}

RateAdjustmentIntervals == {1, 2}

\* expected adjustments below and above the cap per adjustment of 1
RateExpectedAdjustments == {Dec(1, 2), Num(2)}

RateLifetimeCaps == {Zero, Num(2), Num(5)}

RateInputs ==
    [fixed : [loanAmount    : {Num(100000)},
              interestRate  : {Dec(65, 10)},
              loanTermYears : {RateTermYears}],
     arm   : [loanAmount              : {Num(100000)},
              initialRate             : {Num(5)},
              initialPeriodYears      : RateInitialPeriods,
              adjustmentIntervalYears : RateAdjustmentIntervals,
              expectedRateAdjustment  : RateExpectedAdjustments,
              rateCapPerAdjustment    : {One},
              lifetimeRateCap         : RateLifetimeCaps]]

InitRates ==
    /\ calc = "compareRates"
    /\ in \in RateInputs
    /\ loc = NotRun
    /\ out = NotRun
    /\ prev = NotRun
    /\ now = 0 /\ lastCallTime = 0 /\ callers = <<>> /\ released = <<>>

\* compareRates is called: calculateFixedRate returns, and calculateARM is
\* called and runs up to its loop over the years
RatesEnter ==
    /\ calc = "compareRates"
    /\ ~loc.run /\ ~out.run
    /\ loc' = calculateARMLocals(in.fixed, in.arm)
    /\ UNCHANGED <<calc, in, out, prev, throttleVars>>

\* a pass of the loop over the years begins
ARMYear ==
    /\ calc = "compareRates"
    /\ loc.run /\ loc.pc = "projection"
    /\ loc.year <= loc.loanTermYears
    /\ loc' = calculateARMYear(loc, in.arm)
    /\ UNCHANGED <<calc, in, out, prev, throttleVars>>

\* one pass of the loop of calculateRemainingBalance
ARMBalancePass ==
    /\ calc = "compareRates"
    /\ loc.run /\ loc.pc = "calculateRemainingBalance"
    /\ loc.call.i < loc.call.passes
    /\ loc' = [loc EXCEPT !.call = calculateRemainingBalancePass(loc.call)]
    /\ UNCHANGED <<calc, in, out, prev, throttleVars>>

\* calculateRemainingBalance returns into the pass of the loop over the years
ARMPayment ==
    /\ calc = "compareRates"
    /\ loc.run /\ loc.pc = "calculateRemainingBalance"
    /\ ~(loc.call.i < loc.call.passes)
    /\ loc.call.returnTo = "projection"
    /\ loc' = calculateARMPayment(loc)
    /\ UNCHANGED <<calc, in, out, prev, throttleVars>>

\* one month of interest of the projected year
ARMMonth ==
    /\ calc = "compareRates"
    /\ loc.run /\ loc.pc = "interest"
    /\ loc.month < 12
    /\ loc' = calculateARMMonth(loc, in.arm)
    /\ UNCHANGED <<calc, in, out, prev, throttleVars>>

\* the loop over the years is left: calculateRemainingBalance is called for the
\* balance after the initial period
ARMProjectionDone ==
    /\ calc = "compareRates"
    /\ loc.run /\ loc.pc = "projection"
    /\ ~(loc.year <= loc.loanTermYears)
    /\ loc' = [loc EXCEPT
                  !.pc   = "calculateRemainingBalance",
                  !.call = calculateRemainingBalanceLocals(
                               in.arm.loanAmount, in.arm.initialRate,
                               loc.loanTermYears, in.arm.initialPeriodYears,
                               "worstCase")]
    /\ UNCHANGED <<calc, in, out, prev, throttleVars>>

\* calculateRemainingBalance returns into the worst case
ARMWorstCase ==
    /\ calc = "compareRates"
    /\ loc.run /\ loc.pc = "calculateRemainingBalance"
    /\ ~(loc.call.i < loc.call.passes)
    /\ loc.call.returnTo = "worstCase"
    /\ loc' = calculateARMWorstCase(loc, in.arm)
    /\ UNCHANGED <<calc, in, out, prev, throttleVars>>

\* one month of the initial period of the worst case
ARMWorstCaseInitialMonth ==
    /\ calc = "compareRates"
    /\ loc.run /\ loc.pc = "worstCaseInitial"
    /\ loc.year <= in.arm.initialPeriodYears
    /\ loc' = calculateARMWorstCaseMonth(loc, in.arm.initialRate,
                                         loc.initialMonthlyPayment)
    /\ UNCHANGED <<calc, in, out, prev, throttleVars>>

\* the initial period of the worst case is over: worstCasePayment is computed
\* and the loop over the years after it is reached, year = initialPeriodYears + 1
ARMWorstCaseRest ==
    /\ calc = "compareRates"
    /\ loc.run /\ loc.pc = "worstCaseInitial"
    /\ ~(loc.year <= in.arm.initialPeriodYears)
    /\ loc' = [loc EXCEPT
                  !.worstCasePayment =
                      RateComparison_calculateMonthlyPayment(
                          loc.worstCaseBalance, worstCaseRate(in.arm),
                          loc.loanTermYears - in.arm.initialPeriodYears),
                  !.year  = in.arm.initialPeriodYears + 1,
                  !.month = 0,
                  !.pc    = "worstCaseRest"]
    /\ UNCHANGED <<calc, in, out, prev, throttleVars>>

\* one month of the worst case after the initial period
ARMWorstCaseRestMonth ==
    /\ calc = "compareRates"
    /\ loc.run /\ loc.pc = "worstCaseRest"
    /\ loc.year <= loc.loanTermYears
    /\ loc' = calculateARMWorstCaseMonth(loc, worstCaseRate(in.arm),
                                         loc.worstCasePayment)
    /\ UNCHANGED <<calc, in, out, prev, throttleVars>>

\* calculateARM returns its record to compareRates
ARMReturn ==
    /\ calc = "compareRates"
    /\ loc.run /\ loc.pc = "worstCaseRest"
    /\ ~(loc.year <= loc.loanTermYears)
    /\ loc' = compareRatesLocals(loc)
    /\ UNCHANGED <<calc, in, out, prev, throttleVars>>

\* one scenario of compareRates
RatesScenario ==
    /\ calc = "compareRates"
    /\ loc.run /\ loc.pc = "scenarios"
    /\ loc.year <= loc.loanTermYears
    /\ loc' = compareRatesScenario(loc, in.arm)
    /\ UNCHANGED <<calc, in, out, prev, throttleVars>>

\* compareRates returns its record
RatesReturn ==
    /\ calc = "compareRates"
    /\ loc.run /\ loc.pc = "scenarios"
    /\ ~(loc.year <= loc.loanTermYears)
    /\ out' = compareRatesResult(loc, in.arm)
    /\ loc' = NotRun
    /\ UNCHANGED <<calc, in, prev, throttleVars>>

NextRates ==
    \/ RatesEnter
    \/ ARMYear
    \/ ARMBalancePass
    \/ ARMPayment
    \/ ARMMonth
    \/ ARMProjectionDone
    \/ ARMWorstCase
    \/ ARMWorstCaseInitialMonth
    \/ ARMWorstCaseRest
    \/ ARMWorstCaseRestMonth
    \/ ARMReturn
    \/ RatesScenario
    \/ RatesReturn

SpecRates == InitRates /\ [][NextRates]_vars


\* C10: the ARM rate in force is at most initialRate + lifetimeRateCap in every
\* projected year of calculateARM, and so is armRate in every scenario of
\* compareRates
C10_RateWithinLifetimeCap ==
    calc = "compareRates" =>
        /\ loc.run =>
              /\ Le(loc.currentRate, worstCaseRate(in.arm))
              /\ \A y \in 1..Len(loc.ratesInForce) :
                    Le(loc.ratesInForce[y], worstCaseRate(in.arm))
        /\ out.run =>
              \A y \in 1..Len(out.scenarios) :
                  /\ Le(out.scenarios[y].armRate, worstCaseRate(in.arm))
                  /\ Le(out.ratesInForce[y], worstCaseRate(in.arm))

\* compareRates has returned, and in some year after the initial period the
\* lifetime cap has cut the rate of calculateARM and armRate of the scenario:
\* both are at the cap, which the adjustment would have passed
C10_CapBinds ==
    /\ calc = "compareRates" /\ out.run
    /\ \E y \in 2..Len(out.scenarios) :
          /\ y > in.arm.initialPeriodYears
          /\ out.ratesInForce[y] = worstCaseRate(in.arm)
          /\ out.scenarios[y].armRate = worstCaseRate(in.arm)
          /\ Gt(ARMAdjustedRateUncapped(out.ratesInForce[y - 1], in.arm),
                worstCaseRate(in.arm))
          /\ (y - in.arm.initialPeriodYears) % in.arm.adjustmentIntervalYears = 0

\* the rate of year y as C11 states it: initialRate through the initial period,
\* then a rise of min(expectedRateAdjustment, rateCapPerAdjustment), limited by
\* the lifetime cap, in the first year after the initial period and in every
\* adjustmentIntervalYears-th year after that one, and no change in between
RECURSIVE ClaimedRate(_, _)
ClaimedRate(y, a) ==
    IF y <= a.initialPeriodYears THEN a.initialRate
    ELSE IF (y - a.initialPeriodYears - 1) % a.adjustmentIntervalYears = 0
         THEN MathMin(Add(ClaimedRate(y - 1, a),
                          MathMin(a.expectedRateAdjustment, a.rateCapPerAdjustment)),
                      Add(a.initialRate, a.lifetimeRateCap))
         ELSE ClaimedRate(y - 1, a)

\* C11: in calculateARM the rate is initialRate in each year of the initial
\* period, and the projected payment of each of those years is
\* initialMonthlyPayment; after the initial period the rate rises by
\* min(expectedRateAdjustment, rateCapPerAdjustment) at each boundary of
\* adjustmentIntervalYears, the first of them the first year after the initial
\* period, does not change between boundaries, and only the lifetime cap limits it
C11_RateSchedule ==
    (calc = "compareRates" /\ out.run) =>
        \A y \in 1..Len(out.ratesInForce) :
            /\ out.ratesInForce[y] = ClaimedRate(y, in.arm)
            /\ y <= in.arm.initialPeriodYears =>
                   out.arm.projectedMonthlyPayments[y] = out.arm.initialMonthlyPayment

\* calculateARM has returned with the rates C11 states, which rose after the
\* initial period
C11_ScheduleFollowed ==
    /\ calc = "compareRates" /\ out.run
    /\ \A y \in 1..Len(out.ratesInForce) :
          /\ out.ratesInForce[y] = ClaimedRate(y, in.arm)
          /\ y <= in.arm.initialPeriodYears =>
                 out.arm.projectedMonthlyPayments[y] = out.arm.initialMonthlyPayment
    /\ Gt(out.ratesInForce[in.arm.initialPeriodYears + 1], in.arm.initialRate)


\* C29: in compareRates the armRate of the scenario of every year is the rate
\* from which calculateARM computed the armPayment of that year
\* (projectedMonthlyPayments[year - 1]), for every adjustment interval and every
\* expected adjustment and cap per adjustment.
C29_ScenarioRateIsPaymentRate ==
    (calc = "compareRates" /\ out.run) =>
        \A y \in 1..Len(out.scenarios) :
            /\ out.scenarios[y].armPayment = out.arm.projectedMonthlyPayments[y]
            /\ out.scenarios[y].armRate = out.ratesInForce[y]

\* compareRates has returned scenarios whose rates are those of calculateARM,
\* and they rose after the initial period
C29_RatesAgree ==
    /\ calc = "compareRates" /\ out.run
    /\ \A y \in 1..Len(out.scenarios) : out.scenarios[y].armRate = out.ratesInForce[y]
    /\ Gt(out.scenarios[Len(out.scenarios)].armRate, in.arm.initialRate)


\* ------------------------------------------------------------------------
\* The API throttler (apiThrottler.ts)
\* ------------------------------------------------------------------------

\* alphaVantageThrottler: minDelayMs
minDelayMs == 2000

\* how many lookups use the shared throttler at the same time
NumCallers == 2

\* the clock moves in steps of TickMs, at most MaxTicks times
TickMs == 500

MaxTicks == 10

\* the lookups, each calling throttle() before each of its requests
Callers == 1..NumCallers

Idle == [pc |-> "idle", waitTime |-> 0, wakeAt |-> 0]

\* Date.now() at the first call: any real reading is at least minDelayMs past 0,
\* the initial lastCallTime, so the first call never waits
InitThrottle ==
    /\ calc = "none" /\ in = NotRun /\ loc = NotRun /\ out = NotRun /\ prev = NotRun
    /\ now = minDelayMs
    /\ lastCallTime = 0
    /\ callers = [c \in Callers |-> Idle]
    /\ released = <<>>

\* throttle() without its wait
ThrottleEnterNoWait(c) ==
    /\ callers[c].pc = "idle"
    /\ lastCallTime' = now
    /\ released' = Append(released, now)
    /\ UNCHANGED callers

\* throttle() with a fixed wait of minDelayMs, whatever time has passed
ThrottleEnterAlwaysWaits(c) ==
    /\ callers[c].pc = "idle"
    /\ callers' = [callers EXCEPT ![c] =
           [pc |-> "waiting", waitTime |-> minDelayMs, wakeAt |-> now + minDelayMs]]
    /\ UNCHANGED <<lastCallTime, released>>

\* throttle() up to its await, or to its end when it does not wait
ThrottleEnter(c) ==
    /\ callers[c].pc = "idle"
    /\ LET timeSinceLastCall == now - lastCallTime
       IN  IF timeSinceLastCall < minDelayMs
           THEN LET waitTime == minDelayMs - timeSinceLastCall
                IN  /\ callers' = [callers EXCEPT ![c] =
                           [pc |-> "waiting", waitTime |-> waitTime,
                            wakeAt |-> now + waitTime]]
                    /\ UNCHANGED <<lastCallTime, released>>
           ELSE /\ lastCallTime' = now
                /\ released' = Append(released, now)
                /\ UNCHANGED callers

\* the timer of a waiting call has fired: lastCallTime = Date.now(), and the
\* promise resolves
ThrottleLeave(c) ==
    /\ callers[c].pc = "waiting"
    /\ now >= callers[c].wakeAt
    /\ lastCallTime' = now
    /\ released' = Append(released, now)
    /\ callers' = [callers EXCEPT ![c] = Idle]

\* a lookup calls throttle()
ThrottleCall(c) == ThrottleEnter(c) /\ UNCHANGED <<now, calcVars>>

\* a waiting call of throttle() goes on
ThrottleResume(c) == ThrottleLeave(c) /\ UNCHANGED <<now, calcVars>>

\* time passes; a timer that is due fires before the clock moves past it
Tick ==
    /\ now < minDelayMs + MaxTicks * TickMs
    /\ \A c \in Callers : callers[c].pc = "waiting" => now < callers[c].wakeAt
    /\ now' = now + TickMs
    /\ UNCHANGED <<lastCallTime, callers, released, calcVars>>

NextThrottle ==
    \/ \E c \in Callers : ThrottleCall(c)
    \/ \E c \in Callers : ThrottleResume(c)
    \/ Tick

SpecThrottle == InitThrottle /\ [][NextThrottle]_vars

\* C1: under every interleaving of throttle() calls on the shared throttler,
\* calls started while an earlier call is still waiting included, any two
\* resolutions are at least minDelayMs = 2000 ms apart.
C1_ResolutionsSpaced ==
    \A i, j \in 1..Len(released) :
        i < j => released[j] - released[i] >= minDelayMs

\* two calls in flight at once: both wait on the same lastCallTime
C1_TwoWaiting ==
    \E c, d \in Callers :
        c # d /\ callers[c].pc = "waiting" /\ callers[d].pc = "waiting"

\* how many resolutions there may have been when reset() is called
MaxReleases == 4

\* reset()
ThrottleReset ==
    /\ lastCallTime # 0
    /\ Len(released) < MaxReleases
    /\ lastCallTime' = 0
    /\ UNCHANGED <<now, callers, released, calcVars>>

\* a lookup calls throttle() while the clock has minDelayMs left to run
ThrottleCallInTime(c) ==
    /\ now <= MaxTicks * TickMs
    /\ ThrottleCall(c)

NextThrottleReset ==
    \/ \E c \in Callers : ThrottleCallInTime(c)
    \/ \E c \in Callers : ThrottleResume(c)
    \/ Tick
    \/ ThrottleReset

\* time passes and a timer that is due fires: the event loop runs the callback
\* of setTimeout once its delay is over
SpecThrottleFair ==
    /\ InitThrottle
    /\ [][NextThrottleReset]_vars
    /\ WF_vars(Tick)
    /\ \A c \in Callers : WF_vars(ThrottleResume(c))

\* C28: every throttle() call eventually resolves, after a wait of at most
\* minDelayMs, under any interleaving of callers; a call made when at least
\* minDelayMs has passed since the last recorded call, the first call ever and
\* the first call after reset() included, resolves without waiting.
C28_ResolvesWithinDelay ==
    /\ \A c \in Callers : (callers[c].pc = "waiting") ~> (callers[c].pc = "idle")
    /\ [](\A c \in Callers :
              callers[c].pc = "waiting" =>
                  /\ callers[c].waitTime > 0
                  /\ callers[c].waitTime <= minDelayMs)
    /\ [][\A c \in Callers :
              (callers[c].pc = "idle" /\ callers'[c].pc = "waiting") =>
                  now - lastCallTime < minDelayMs]_vars

\* the first call ever and, at the same instant, the first call after reset()
\* have resolved without waiting, and a third call waits minDelayMs
C28_CallAfterReset ==
    /\ released = <<minDelayMs, minDelayMs>>
    /\ \E c \in Callers : callers[c].pc = "waiting" /\ callers[c].waitTime = minDelayMs

\* ------------------------------------------------------------------------
\* The lookups (dividendCalculator.ts, stockFairValue.ts)
\* ------------------------------------------------------------------------

\* the clock of a lookup moves in steps of LookupTickMs, at most LookupTicks times
LookupTickMs == 1000

LookupTicks == 6

\* the caller of throttle() that is the lookup; the other callers are other
\* lookups on the shared throttler
TheLookup == 1

Lookups == {"fetchDividendInfo", "fetchStockData"}

\* the fetchers a lookup awaits, in order
Fetchers(lookup) ==
    IF lookup = "fetchDividendInfo"
    THEN <<"fetchDividendHistory", "fetchStockQuote", "fetchCompanyOverview">>
    ELSE <<"fetchCompanyOverview", "fetchStockQuote", "fetchCashFlow", "fetchBalanceSheet">>

\* what the API answers: the payload asked for, an HTTP status that is not ok,
\* an object with 'Error Message', with 'Note' or with 'Information', or {}
Responses == {"ok", "notOk", "Error Message", "Note", "Information", "empty"}

\* the fetchers that test data['Information']
ChecksInformation(lookup, fetcher) ==
    IF lookup = "fetchDividendInfo"
    THEN fetcher \in {"fetchDividendHistory", "fetchStockQuote"}
    ELSE fetcher = "fetchCompanyOverview"

\* the fetchers that test whether the payload is there
ChecksPayload(lookup, fetcher) ==
    IF lookup = "fetchDividendInfo"
    THEN fetcher \in {"fetchDividendHistory", "fetchStockQuote"}
    ELSE fetcher \in {"fetchCompanyOverview", "fetchStockQuote"}

\* what a fetcher does with a response: "return", or the error it throws
FetcherOutcome(lookup, fetcher, response) ==
    IF response = "notOk" THEN "failed to fetch"
    ELSE IF response = "Error Message" THEN "invalid symbol"
    ELSE IF response = "Note" THEN "rate limit"
    ELSE IF response = "Information" /\ ChecksInformation(lookup, fetcher) THEN "rate limit"
    ELSE IF response \in {"Information", "empty"} /\ ChecksPayload(lookup, fetcher) THEN "no data"
    ELSE "return"

\* the responses of a lookup: at most one of them is not the payload
LookupInputs ==
    {[responses |-> [k \in 1..n |-> IF k = p THEN r ELSE "ok"]] :
        n \in {3, 4}, p \in 1..4, r \in Responses}

\* a lookup is called on the throttler as its constructor left it
InitLookup ==
    /\ calc \in Lookups
    /\ in \in LookupInputs
    /\ Len(in.responses) = Len(Fetchers(calc))
    /\ loc = [run |-> TRUE, pc |-> "call", log |-> <<>>]
    /\ out = NotRun
    /\ prev = NotRun
    /\ now = minDelayMs
    /\ lastCallTime = 0
    /\ callers = [c \in Callers |-> Idle]
    /\ released = <<>>

\* the entry of the log for a request: when its fetcher called throttle(), when
\* throttle() resolved and the request went out, when the response came (-1: not yet)
LogEntry(calledAt, releasedAt) ==
    [calledAt |-> calledAt, releasedAt |-> releasedAt, respondedAt |-> -1]

LogLast(log, field, t) == [log EXCEPT ![Len(log)][field] = t]

\* the lookup awaits its next fetcher, which calls throttle(); if throttle()
\* does not wait the request goes out
FetcherCall ==
    /\ calc \in Lookups /\ loc.run /\ loc.pc = "call"
    /\ ThrottleEnter(TheLookup)
    /\ loc' = IF callers'[TheLookup].pc = "waiting"
              THEN [loc EXCEPT !.pc = "throttle", !.log = Append(@, LogEntry(now, -1))]
              ELSE [loc EXCEPT !.pc = "fetch", !.log = Append(@, LogEntry(now, now))]
    /\ UNCHANGED <<calc, in, out, prev, now>>

\* throttle() resolves and the request goes out
FetcherRequest ==
    /\ calc \in Lookups /\ loc.run /\ loc.pc = "throttle"
    /\ ThrottleLeave(TheLookup)
    /\ loc' = [loc EXCEPT !.pc = "fetch", !.log = LogLast(@, "releasedAt", now)]
    /\ UNCHANGED <<calc, in, out, prev, now>>

\* the response is there: the fetcher throws or returns it, and after the last
\* fetcher the lookup returns its record
FetcherResponse ==
    /\ calc \in Lookups /\ loc.run /\ loc.pc = "fetch"
    /\ LET Continue(outcome, log) ==
               IF outcome # "return"
               THEN /\ out' = [run |-> TRUE, status |-> "thrown", error |-> outcome, log |-> log]
                    /\ loc' = NotRun
               ELSE IF Len(log) < Len(Fetchers(calc))
               THEN /\ loc' = [loc EXCEPT !.pc = "call", !.log = log]
                    /\ UNCHANGED out
               ELSE /\ out' = [run |-> TRUE, status |-> "returned", error |-> "none", log |-> log]
                    /\ loc' = NotRun
       IN  Continue(FetcherOutcome(calc, Fetchers(calc)[Len(loc.log)],
                                   in.responses[Len(loc.log)]),
                    LogLast(loc.log, "respondedAt", now))
    /\ UNCHANGED <<calc, in, prev, throttleVars>>

\* another lookup calls throttle(), or goes on after its wait
OtherLookup ==
    \E c \in Callers \ {TheLookup} : ThrottleCall(c) \/ ThrottleResume(c)

\* time passes; a timer that is due fires before the clock moves past it
LookupTick ==
    /\ now < minDelayMs + LookupTicks * LookupTickMs
    /\ \A c \in Callers : callers[c].pc = "waiting" => now < callers[c].wakeAt
    /\ now' = now + LookupTickMs
    /\ UNCHANGED <<lastCallTime, callers, released, calcVars>>

NextLookup == FetcherCall \/ FetcherRequest \/ FetcherResponse \/ OtherLookup \/ LookupTick

SpecLookup == InitLookup /\ [][NextLookup]_vars

\* the requests of the lookup so far
LookupLog == IF out.run THEN out.log ELSE loc.log

\* C16: within a lookup, fetchDividendInfo issues exactly 3 requests and
\* fetchStockData exactly 4, one after another: a request does not start before
\* the response to the one before it is there, each request follows a throttle()
\* call of its own, and each starts at least 2000 ms after throttle() released
\* the request before it.
C16_RequestsInTurn ==
    calc \in Lookups =>
        /\ Len(LookupLog) <= (IF calc = "fetchDividendInfo" THEN 3 ELSE 4)
        /\ (out.run /\ out.status = "returned") =>
               Len(LookupLog) = (IF calc = "fetchDividendInfo" THEN 3 ELSE 4)
        /\ \A k \in 1..Len(LookupLog) :
               /\ LookupLog[k].releasedAt # -1 =>
                      LookupLog[k].calledAt <= LookupLog[k].releasedAt
               /\ k > 1 =>
                      /\ LookupLog[k - 1].respondedAt # -1
                      /\ LookupLog[k - 1].respondedAt <= LookupLog[k].calledAt
                      /\ LookupLog[k].releasedAt # -1 =>
                             LookupLog[k].releasedAt - LookupLog[k - 1].releasedAt >= minDelayMs

\* fetchStockData has returned after 4 requests, the last of which had to wait
C16_FourRequests ==
    /\ calc = "fetchStockData" /\ out.run /\ out.status = "returned"
    /\ Len(out.log) = 4
    /\ out.log[4].calledAt < out.log[4].releasedAt

\* C17: every fetcher throws when the response signals a failure: 'Error
\* Message' as an invalid symbol, 'Note' or 'Information' as the rate limit, a
\* missing payload as no data; a lookup never returns from such a response.
C17_FailuresThrow ==
    (calc \in Lookups /\ out.run) =>
        \A k \in 1..Len(out.log) :
            LET response == in.responses[k]
            IN  IF response = "ok" THEN out.status = "returned" \/ k < Len(out.log)
                ELSE /\ out.status = "thrown" /\ k = Len(out.log)
                     /\ response = "Error Message" => out.error = "invalid symbol"
                     /\ response \in {"Note", "Information"} => out.error = "rate limit"
                     /\ response = "empty" => out.error = "no data"

\* a fetcher has thrown the rate limit error on a response with 'Information'
C17_InformationThrown ==
    /\ calc \in Lookups /\ out.run /\ out.status = "thrown"
    /\ in.responses[Len(out.log)] = "Information"
    /\ out.error = "rate limit"


\* ------------------------------------------------------------------------
\* The records of the lookups (dividendCalculator.ts, stockFairValue.ts)
\* ------------------------------------------------------------------------

\* what the API may have in a numeric field: nothing (the field is missing), the
\* empty string, 'None', '-', text that is not a number, or a number
FieldTexts == {"missing", "", "None", "-", "abc", "12.5", "0.08"}

\* JavaScript's parseFloat on these
parseFloat(text) ==
    IF text = "12.5" THEN Dec(125, 10)
    ELSE IF text = "0.08" THEN Dec(8, 100)
    ELSE NaN

parseNumeric(text) ==
    IF text \in {"missing", "", "None", "-"} THEN Zero
    ELSE IF parseFloat(text) = NaN THEN Zero ELSE parseFloat(text)

parseGrowthRate(text) ==
    IF text \in {"missing", "", "None", "-"} THEN Zero
    ELSE IF parseFloat(text) = NaN THEN Zero
    ELSE IF Gt(parseFloat(text), One) \/ Lt(parseFloat(text), Neg(One))
    THEN Div(parseFloat(text), Num(100))
    ELSE parseFloat(text)

\* the numeric fields of the record a lookup builds from the texts of its
\* responses: of the price, and of a dividend amount or of EPS and EarningsGrowth
LookupRecord(lookup, texts) ==
    IF lookup = "fetchDividendInfo"
    THEN [run    |-> TRUE,
          amount |-> parseFloat(texts.amount),
          price  |-> parseFloat(texts.price)]
    ELSE [run                |-> TRUE,
          price              |-> parseNumeric(texts.price),
          eps                |-> parseNumeric(texts.amount),
          earningsGrowthRate |-> parseGrowthRate(texts.growth)]

\* the quote fetchers throw unless the price text is there and not empty
LookupTexts ==
    [price : FieldTexts \ {"missing", ""}, amount : FieldTexts, growth : FieldTexts]

\* the fetchers of a lookup have returned their responses
InitRecord ==
    /\ calc \in Lookups
    /\ in \in LookupTexts
    /\ loc = NotRun
    /\ out = NotRun
    /\ prev = NotRun
    /\ now = 0 /\ lastCallTime = 0 /\ callers = <<>> /\ released = <<>>

\* the lookup builds its record and returns it
RecordReturn ==
    /\ calc \in Lookups
    /\ ~loc.run /\ ~out.run
    /\ out' = LookupRecord(calc, in)
    /\ UNCHANGED <<calc, in, loc, prev, throttleVars>>

NextRecord == RecordReturn

SpecRecord == InitRecord /\ [][NextRecord]_vars

\* a text that is no number
Unparsable(text) == text \in {"missing", "", "None", "-", "abc"}

\* C18: every numeric field of an API response that cannot be parsed (missing,
\* 'None', '-', text that is not a number) is 0 in the StockData or
\* DividendHistory record.
C18_UnparsedIsZero ==
    (calc \in Lookups /\ out.run) =>
        /\ Unparsable(in.price) => out.price = Zero
        /\ (calc = "fetchDividendInfo" /\ Unparsable(in.amount)) => out.amount = Zero
        /\ (calc = "fetchStockData" /\ Unparsable(in.amount)) => out.eps = Zero
        /\ (calc = "fetchStockData" /\ Unparsable(in.growth)) =>
               out.earningsGrowthRate = Zero

\* a StockData record with 0 for three fields that could not be parsed
C18_StockDataZero ==
    /\ calc = "fetchStockData" /\ out.run
    /\ in.price = "None" /\ in.amount = "abc" /\ in.growth = "missing"
    /\ out.price = Zero /\ out.eps = Zero /\ out.earningsGrowthRate = Zero


\* ------------------------------------------------------------------------
\* Fair value of a stock (stockFairValue.ts)
\* ------------------------------------------------------------------------

\* the years calculateDCFFairValue projects in the calls of the model
ProjectionYears == 3

\* the record for inputs the method cannot take, with the price as fair value
PeterLynchCannotAtPrice(currentPrice, explanation) ==
    [run |-> TRUE, fairValue |-> currentPrice, currentPrice |-> currentPrice,
     pegRatio |-> Infinity, isUndervalued |-> FALSE, upsidePercent |-> Zero,
     explanation |-> explanation]

\* the record for inputs the method cannot take
PeterLynchCannot(currentPrice, explanation) ==
    [run |-> TRUE, fairValue |-> Zero, currentPrice |-> currentPrice,
     pegRatio |-> Infinity, isUndervalued |-> FALSE, upsidePercent |-> Zero,
     explanation |-> explanation]

PeterLynchValue(eps, growthPercent, currentPrice, pegRatio) ==
    [run           |-> TRUE,
     fairValue     |-> RoundCents(Mul(eps, growthPercent)),
     currentPrice  |-> currentPrice,
     pegRatio      |-> RoundCents(pegRatio),
     isUndervalued |-> Lt(pegRatio, One),
     upsidePercent |->
         RoundCents(Mul(Div(Sub(Mul(eps, growthPercent), currentPrice), currentPrice),
                        Num(100))),
     explanation   |->
         IF Lt(pegRatio, Dec(5, 10)) THEN "PEG suggests the stock is significantly undervalued"
         ELSE IF Lt(pegRatio, One) THEN "PEG indicates the stock is undervalued"
         ELSE IF Lt(pegRatio, Dec(15, 10)) THEN "PEG suggests the stock is slightly overvalued"
         ELSE IF Lt(pegRatio, Num(2)) THEN "PEG indicates the stock may be overvalued"
         ELSE "PEG suggests significant overvaluation"]

calculatePeterLynchFairValue(eps, earningsGrowthRate, currentPrice) ==
    IF Le(eps, Zero)
    THEN PeterLynchCannot(currentPrice,
                          "Cannot calculate: EPS must be positive for PEG analysis.")
    ELSE IF Le(earningsGrowthRate, Zero)
    THEN PeterLynchCannot(currentPrice,
                          "Cannot calculate: Growth rate must be positive for PEG analysis.")
    ELSE PeterLynchValue(eps, Mul(earningsGrowthRate, Num(100)), currentPrice,
                         Div(Div(currentPrice, eps), Mul(earningsGrowthRate, Num(100))))

\* the record for inputs the model cannot take
DCFCannot(a, sharesOutstanding, explanation) ==
    [run |-> TRUE, fairValue |-> Zero, currentPrice |-> Zero, isUndervalued |-> FALSE,
     upsidePercent |-> Zero,
     details |-> [projectedFCFs |-> <<>>, discountedFCFs |-> <<>>, terminalValue |-> Zero,
                  discountedTerminalValue |-> Zero, totalEnterpriseValue |-> Zero,
                  netDebt |-> Sub(a.totalDebt, a.totalCash), equityValue |-> Zero,
                  sharesOutstanding |-> sharesOutstanding],
     explanation |-> explanation]

\* the loop of calculateDCFFairValue: the projected cash flows of the years
RECURSIVE DCFProjected(_, _, _)
DCFProjected(projectedFCFs, currentFCF, a) ==
    IF Len(projectedFCFs) >= a.projectionYears THEN projectedFCFs
    ELSE DCFProjected(Append(projectedFCFs, Mul(currentFCF, Add(One, a.growthRate))),
                      Mul(currentFCF, Add(One, a.growthRate)), a)

\* discountedFCFs.reduce((sum, fcf) => sum + fcf, 0), over the first n
RECURSIVE SumOfFCFs(_, _)
SumOfFCFs(fcfs, n) == IF n = 0 THEN Zero ELSE Add(SumOfFCFs(fcfs, n - 1), fcfs[n])

\* calculateDCFFairValue after its loop
DCFValue(a, projectedFCFs, terminalGrowthRate) ==
    LET discountedFCFs ==
            [y \in 1..Len(projectedFCFs) |->
                Div(projectedFCFs[y], MathPow(Add(One, a.discountRate), y))]
        currentFCF ==
            IF projectedFCFs = <<>> THEN a.freeCashFlow
            ELSE projectedFCFs[Len(projectedFCFs)]
        Result(terminalValue, discountedTerminalValue, totalEnterpriseValue, equityValue) ==
            [run |-> TRUE,
             fairValue |-> RoundCents(Div(equityValue, a.sharesOutstanding)),
             currentPrice |-> Zero, isUndervalued |-> FALSE, upsidePercent |-> Zero,
             details |-> [projectedFCFs |-> [y \in 1..Len(projectedFCFs) |->
                                                RoundCents(projectedFCFs[y])],
                          discountedFCFs |-> [y \in 1..Len(projectedFCFs) |->
                                                 RoundCents(discountedFCFs[y])],
                          terminalValue |-> RoundCents(terminalValue),
                          discountedTerminalValue |-> RoundCents(discountedTerminalValue),
                          totalEnterpriseValue |-> RoundCents(totalEnterpriseValue),
                          netDebt |-> RoundCents(Sub(a.totalDebt, a.totalCash)),
                          equityValue |-> RoundCents(equityValue),
                          sharesOutstanding |-> a.sharesOutstanding],
             explanation |->
                 IF Gt(Div(equityValue, a.sharesOutstanding), Zero)
                 THEN "Based on projected free cash flows, the intrinsic value per share is estimated."
                 ELSE "The DCF model produced a negative fair value"]
        Equity(terminalValue, discountedTerminalValue, totalEnterpriseValue) ==
            Result(terminalValue, discountedTerminalValue, totalEnterpriseValue,
                   Sub(totalEnterpriseValue, Sub(a.totalDebt, a.totalCash)))
        Enterprise(terminalValue, discountedTerminalValue) ==
            Equity(terminalValue, discountedTerminalValue,
                   Add(SumOfFCFs(discountedFCFs, Len(discountedFCFs)), discountedTerminalValue))
        Terminal(terminalValue) ==
            Enterprise(terminalValue,
                       Div(terminalValue,
                           MathPow(Add(One, a.discountRate), a.projectionYears)))
    IN  Terminal(Div(Mul(currentFCF, Add(One, terminalGrowthRate)),
                     Sub(a.discountRate, terminalGrowthRate)))

calculateDCFFairValue(a) ==
    IF Le(a.freeCashFlow, Zero)
    THEN DCFCannot(a, a.sharesOutstanding,
                   "Cannot calculate: Free Cash Flow must be positive for DCF analysis.")
    ELSE IF Le(a.sharesOutstanding, Zero)
    THEN DCFCannot(a, Zero, "Cannot calculate: Shares outstanding must be positive.")
    ELSE IF Le(a.discountRate, Zero)
    THEN DCFCannot(a, a.sharesOutstanding, "Cannot calculate: Discount rate must be positive.")
    ELSE DCFValue(a, DCFProjected(<<>>, a.freeCashFlow, a),
                  IF Ge(a.terminalGrowthRate, a.discountRate)
                  THEN Sub(a.discountRate, Dec(1, 100))
                  ELSE a.terminalGrowthRate)

\* the arguments of the calls: negative, 0 and positive where the functions test
FairValueInputs ==
    [eps : {Num(-1), Zero, Dec(25, 10)},
     earningsGrowthRate : {Dec(-5, 100), Zero, Dec(5, 100), Dec(15, 100)},
     currentPrice : {Num(10), Num(50)}]
    \cup
    [freeCashFlow : {Num(-100), Zero, Num(500)},
     sharesOutstanding : {Num(-1), Zero, Num(100)},
     totalDebt : {Num(200)},
     totalCash : {Num(50), Num(9000)},
     growthRate : {Dec(5, 100)},
     discountRate : {Dec(-2, 100), Zero, Dec(10, 100)},
     terminalGrowthRate : {Dec(25, 1000), Dec(12, 100)},
     projectionYears : {ProjectionYears}]

InitFairValue ==
    /\ in \in FairValueInputs
    /\ calc = (IF "eps" \in DOMAIN in THEN "calculatePeterLynchFairValue"
               ELSE "calculateDCFFairValue")
    /\ loc = NotRun
    /\ out = NotRun
    /\ prev = NotRun
    /\ now = 0 /\ lastCallTime = 0 /\ callers = <<>> /\ released = <<>>

PeterLynchCall ==
    /\ calc = "calculatePeterLynchFairValue"
    /\ ~out.run
    /\ out' = calculatePeterLynchFairValue(in.eps, in.earningsGrowthRate, in.currentPrice)
    /\ UNCHANGED <<calc, in, loc, prev, throttleVars>>

DCFCall ==
    /\ calc = "calculateDCFFairValue"
    /\ ~out.run
    /\ out' = calculateDCFFairValue(in)
    /\ UNCHANGED <<calc, in, loc, prev, throttleVars>>

NextFairValue == PeterLynchCall \/ DCFCall

SpecFairValue == InitFairValue /\ [][NextFairValue]_vars

\* the inputs C19 calls degenerate
DegenerateInputs ==
    IF calc = "calculatePeterLynchFairValue"
    THEN Le(in.eps, Zero) \/ Le(in.earningsGrowthRate, Zero)
    ELSE Le(in.freeCashFlow, Zero) \/ Le(in.sharesOutstanding, Zero)
             \/ Le(in.discountRate, Zero)

\* C19: for EPS <= 0 or earnings growth <= 0, calculatePeterLynchFairValue, and
\* for free cash flow <= 0, shares <= 0 or discount rate <= 0,
\* calculateDCFFairValue, returns a record with fairValue 0 and an explanation
\* that is not empty; it does not throw.
C19_DegenerateGivesZero ==
    (calc \in {"calculatePeterLynchFairValue", "calculateDCFFairValue"} /\ out.run) =>
        /\ DegenerateInputs => (out.fairValue = Zero /\ out.explanation # "")
        /\ out.explanation # ""

\* calculateDCFFairValue has returned fairValue 0 for a discount rate of 0 with
\* a positive cash flow and positive shares
C19_ZeroDiscountRate ==
    /\ calc = "calculateDCFFairValue" /\ out.run
    /\ Gt(in.freeCashFlow, Zero) /\ Gt(in.sharesOutstanding, Zero)
    /\ in.discountRate = Zero
    /\ out.fairValue = Zero
    /\ out.explanation = "Cannot calculate: Discount rate must be positive."

\* ------------------------------------------------------------------------
\* Dividend frequency (dividendCalculator.ts)
\* ------------------------------------------------------------------------

\* how many times, a year apart, detectDividendFrequency is called again
FrequencyYears == 3

\* a date is the number of its day, 0 for 1 January 2023, in years of 365 days;
\* new Date(d).getFullYear()
YearOf(day) == 2023 + day \div 365

calculateAverageInterval(dividends) ==
    LET Average(sortedDividends) ==
            Div(Num(SumSeq([i \in 1..(Len(dividends) - 1) |->
                               Max2(sortedDividends[i + 1] - sortedDividends[i],
                                    sortedDividends[i] - sortedDividends[i + 1])],
                           1, Len(dividends) - 1)),
                Num(Len(dividends) - 1))
    IN  IF Len(dividends) < 2 THEN Zero
        ELSE Average(SortSeq(dividends, LAMBDA a, b : a < b))

\* detectDividendFrequency with the two fallbacks in the other order: the ratio
\* of payments to years is asked first
detectDividendFrequencyRatioFirst(dividends, currentYear) ==
    LET Between(x, lo, hi) == Ge(x, lo) /\ Le(x, hi)
        PerYear(avgPaymentsPerYear) ==
            IF Ge(avgPaymentsPerYear, Num(10)) THEN "monthly"
            ELSE IF Ge(avgPaymentsPerYear, Num(3)) THEN "quarterly"
            ELSE IF Ge(avgPaymentsPerYear, Dec(15, 10)) THEN "semi-annual"
            ELSE IF Ge(avgPaymentsPerYear, Dec(5, 10)) THEN "annual"
            ELSE "unknown"
        Interval(avgInterval) ==
            IF Between(avgInterval, Num(25), Num(35)) THEN "monthly"
            ELSE IF Between(avgInterval, Num(80), Num(100)) THEN "quarterly"
            ELSE IF Between(avgInterval, Num(170), Num(195)) THEN "semi-annual"
            ELSE IF Between(avgInterval, Num(350), Num(380)) THEN "annual"
            ELSE PerYear(Div(Num(Len(dividends)),
                             Num(Max2(Cardinality({YearOf(dividends[i]) :
                                                      i \in 1..Len(dividends)}), 1))))
    IN  IF Len(dividends) < 2 THEN "unknown"
        ELSE Interval(calculateAverageInterval(dividends))

\* detectDividendFrequency, called in the year currentYear
detectDividendFrequency(dividends, currentYear) ==
    LET Between(x, lo, hi) == Ge(x, lo) /\ Le(x, hi)
        PerYear(avgPaymentsPerYear) ==
            IF Ge(avgPaymentsPerYear, Num(10)) THEN "monthly"
            ELSE IF Ge(avgPaymentsPerYear, Num(3)) THEN "quarterly"
            ELSE IF Ge(avgPaymentsPerYear, Dec(15, 10)) THEN "semi-annual"
            ELSE IF Ge(avgPaymentsPerYear, Dec(5, 10)) THEN "annual"
            ELSE "unknown"
        LastYear(paymentsLastYear) ==
            IF paymentsLastYear >= 11 THEN "monthly"
            ELSE IF paymentsLastYear >= 3 /\ paymentsLastYear <= 5 THEN "quarterly"
            ELSE IF paymentsLastYear = 2 THEN "semi-annual"
            ELSE IF paymentsLastYear = 1 THEN "annual"
            ELSE PerYear(Div(Num(Len(dividends)),
                             Num(Max2(Cardinality({YearOf(dividends[i]) :
                                                      i \in 1..Len(dividends)}), 1))))
        Interval(avgInterval) ==
            IF Between(avgInterval, Num(25), Num(35)) THEN "monthly"
            ELSE IF Between(avgInterval, Num(80), Num(100)) THEN "quarterly"
            ELSE IF Between(avgInterval, Num(170), Num(195)) THEN "semi-annual"
            ELSE IF Between(avgInterval, Num(350), Num(380)) THEN "annual"
            ELSE LastYear(Cardinality({i \in 1..Len(dividends) :
                                          YearOf(dividends[i]) = currentYear - 1}))
    IN  IF Len(dividends) < 2 THEN "unknown"
        ELSE Interval(calculateAverageInterval(dividends))

\* ex-dividend dates of 2023 and 2024
DividendDays == {0, 30, 59, 120, 273, 486, 650, 700}

\* eleven payments of 2024, 36 days apart, the newest first
ElevenPayments == [i \in 1..11 |-> 726 - 36 * (i - 1)]

\* the dividends of a lookup, the newest first
RECURSIVE DividendsOf(_)
DividendsOf(days) ==
    IF days = {} THEN <<>>
    ELSE LET newest == CHOOSE d \in days : \A e \in days : e <= d
         IN  <<newest>> \o DividendsOf(days \ {newest})

\* detectDividendFrequency is about to be called on 1 January 2025
InitFrequency ==
    /\ calc = "detectDividendFrequency"
    /\ \/ \E days \in SUBSET DividendDays :
             Cardinality(days) <= 4 /\ in = [dividends |-> DividendsOf(days)]
       \/ in = [dividends |-> ElevenPayments]
    /\ loc = NotRun
    /\ out = NotRun
    /\ prev = NotRun
    /\ now = 730 /\ lastCallTime = 0 /\ callers = <<>> /\ released = <<>>

\* the call
FrequencyCall ==
    /\ calc = "detectDividendFrequency"
    /\ ~out.run
    /\ out' = [run |-> TRUE, frequency |-> detectDividendFrequency(in.dividends, YearOf(now))]
    /\ UNCHANGED <<calc, in, loc, prev, throttleVars>>

\* a year later the function is called again with the same dividends
FrequencyCallAgain ==
    /\ calc = "detectDividendFrequency"
    /\ out.run
    /\ now < 730 + 365 * FrequencyYears
    /\ now' = now + 365
    /\ prev' = [run |-> TRUE, in |-> in, out |-> out]
    /\ out' = [run |-> TRUE, frequency |-> detectDividendFrequency(in.dividends, YearOf(now'))]
    /\ UNCHANGED <<calc, in, loc, lastCallTime, callers, released>>

NextFrequency == FrequencyCall \/ FrequencyCallAgain

SpecFrequency == InitFrequency /\ [][NextFrequency]_vars

\* C20: the exported calculation functions are pure: they do not change their
\* arguments and read no state outside them, so two calls with equal inputs
\* return equal results, whenever and after whichever calls they are made.
C20_EqualInputsEqualResults ==
    (calc = "detectDividendFrequency" /\ out.run /\ prev.run) =>
        (prev.in = in => prev.out = out)

\* two calls a year apart have returned the same frequency, found from the
\* years of the payments
C20_SameFrequency ==
    /\ calc = "detectDividendFrequency" /\ out.run /\ prev.run
    /\ prev.in = in /\ prev.out = out
    /\ in.dividends = <<700, 650, 59, 0>>
    /\ out.frequency = "semi-annual"


\* the mean number of days between consecutive payments: the days from the
\* oldest payment to the newest, divided by the number of intervals
MeanInterval(dividends) ==
    LET days == {dividends[i] : i \in 1..Len(dividends)}
        Span(oldest, newest) == Div(Num(newest - oldest), Num(Len(dividends) - 1))
    IN  Span(CHOOSE d \in days : \A e \in days : d <= e,
             CHOOSE d \in days : \A e \in days : e <= d)

\* the frequency of the window the mean interval lies in, "none" outside them
WindowOf(mean) ==
    IF Ge(mean, Num(25)) /\ Le(mean, Num(35)) THEN "monthly"
    ELSE IF Ge(mean, Num(80)) /\ Le(mean, Num(100)) THEN "quarterly"
    ELSE IF Ge(mean, Num(170)) /\ Le(mean, Num(195)) THEN "semi-annual"
    ELSE IF Ge(mean, Num(350)) /\ Le(mean, Num(380)) THEN "annual"
    ELSE "none"

\* the frequency a number of payments in one calendar year stands for, "none"
\* for the numbers that decide nothing (0 and 6 to 10)
OfPaymentsInYear(n) ==
    IF n >= 11 THEN "monthly"
    ELSE IF n >= 3 /\ n <= 5 THEN "quarterly"
    ELSE IF n = 2 THEN "semi-annual"
    ELSE IF n = 1 THEN "annual"
    ELSE "none"

\* the frequency of payments payments made in years distinct years
OfRatio(payments, years) ==
    IF payments >= 10 * years THEN "monthly"
    ELSE IF payments >= 3 * years THEN "quarterly"
    ELSE IF 2 * payments >= 3 * years THEN "semi-annual"
    ELSE IF 2 * payments >= years THEN "annual"
    ELSE "unknown"

\* the payments of the calendar year before the one of the call
PaymentsLastYear ==
    Cardinality({i \in 1..Len(in.dividends) : YearOf(in.dividends[i]) = YearOf(now) - 1})

DistinctYears == Cardinality({YearOf(in.dividends[i]) : i \in 1..Len(in.dividends)})

\* C22: detectDividendFrequency returns 'unknown' for fewer than 2 payments;
\* otherwise a mean interval of 25-35 days gives 'monthly', 80-100 'quarterly',
\* 170-195 'semi-annual', 350-380 'annual', and only when no window matches the
\* result comes first from the number of payments in the most recently
\* completed calendar year and then from the ratio of payments to distinct years.
C22_WindowsThenFallbacks ==
    (calc = "detectDividendFrequency" /\ out.run) =>
        IF Len(in.dividends) < 2 THEN out.frequency = "unknown"
        ELSE IF WindowOf(MeanInterval(in.dividends)) # "none"
             THEN out.frequency = WindowOf(MeanInterval(in.dividends))
        ELSE IF OfPaymentsInYear(PaymentsLastYear) # "none"
             THEN out.frequency = OfPaymentsInYear(PaymentsLastYear)
        ELSE out.frequency = OfRatio(Len(in.dividends), DistinctYears)

\* no window matched and the one payment of the last completed year has given
\* 'annual', where the ratio of 3 payments to 2 years stands for 'semi-annual'
C22_LastYearDecides ==
    /\ calc = "detectDividendFrequency" /\ out.run
    /\ in.dividends = <<486, 59, 0>>
    /\ WindowOf(MeanInterval(in.dividends)) = "none"
    /\ PaymentsLastYear = 1
    /\ OfRatio(Len(in.dividends), DistinctYears) = "semi-annual"
    /\ out.frequency = "annual"


\* ------------------------------------------------------------------------
\* Dividend growth rate (dividendCalculator.ts)
\* ------------------------------------------------------------------------

\* a dividend is [year, amount]: the year is new Date(exDate).getFullYear()

\* how many dividends the history of a call has at most
MaxDividends == 3

\* the sum of the amounts of the dividends of one calendar year
YearlyDividends(dividends, year) ==
    LET ofYear == SelectSeq(dividends, LAMBDA d : d.year = year)
    IN  SumField(ofYear, "amount", 1, Len(ofYear))

\* the test on a transition, with both ends of the range let in
GrowthRateIncludedInclusive(prevYearTotal, currYearTotal) ==
    LET InRange(growthRate) == Ge(growthRate, Dec(-9, 10)) /\ Le(growthRate, Num(2))
    IN  /\ Gt(prevYearTotal, Dec(1, 100))
        /\ InRange(Div(Sub(currYearTotal, prevYearTotal), prevYearTotal))

\* whether the loop pushes the growth rate of a transition
GrowthRateIncluded(prevYearTotal, currYearTotal) ==
    LET InRange(growthRate) == Gt(growthRate, Dec(-9, 10)) /\ Lt(growthRate, Num(2))
    IN  /\ Gt(prevYearTotal, Dec(1, 100))
        /\ InRange(Div(Sub(currYearTotal, prevYearTotal), prevYearTotal))

\* growthRates after the loop over the sorted years
RECURSIVE GrowthRates(_, _, _)
GrowthRates(dividends, years, i) ==
    LET Push(rest, prevYearTotal, currYearTotal) ==
            IF GrowthRateIncluded(prevYearTotal, currYearTotal)
            THEN Append(rest, Div(Sub(currYearTotal, prevYearTotal), prevYearTotal))
            ELSE rest
    IN  IF i < 2 THEN <<>>
        ELSE Push(GrowthRates(dividends, years, i - 1),
                  YearlyDividends(dividends, years[i - 1]),
                  YearlyDividends(dividends, years[i]))

RECURSIVE SumOfRates(_, _)
SumOfRates(rates, n) ==
    IF n = 0 THEN Zero ELSE Add(SumOfRates(rates, n - 1), rates[n])

calculateGrowthRate(dividends) ==
    LET Average(growthRates) ==
            IF Len(growthRates) = 0 THEN Zero
            ELSE Div(SumOfRates(growthRates, Len(growthRates)), Num(Len(growthRates)))
        OverYears(years) ==
            IF Len(years) < 2 THEN Zero
            ELSE Average(GrowthRates(dividends, years, Len(years)))
    IN  IF Len(dividends) < 2 THEN Zero
        ELSE OverYears(SortSeq(DividendsOf({dividends[i].year : i \in 1..Len(dividends)}),
                               LAMBDA a, b : a < b))

\* the years and the amounts of the dividends of a call: half a cent, a cent,
\* ten cents, one and three
GrowthYears == {2021, 2022, 2023}

GrowthAmounts == {Dec(5, 1000), Dec(1, 100), Dec(1, 10), One, Num(3)}

InitGrowth ==
    /\ calc = "calculateGrowthRate"
    /\ \E n \in 0..MaxDividends :
          \E dividends \in [1..n -> [year : GrowthYears, amount : GrowthAmounts]] :
              in = [dividends |-> dividends]
    /\ loc = NotRun
    /\ out = NotRun
    /\ prev = NotRun
    /\ now = 0 /\ lastCallTime = 0 /\ callers = <<>> /\ released = <<>>

\* the call
GrowthCall ==
    /\ calc = "calculateGrowthRate"
    /\ ~out.run
    /\ out' = [run |-> TRUE, growthRate |-> calculateGrowthRate(in.dividends)]
    /\ UNCHANGED <<calc, in, loc, prev, throttleVars>>

NextGrowth == GrowthCall

SpecGrowth == InitGrowth /\ [][NextGrowth]_vars

\* the calendar years that have dividends
YearsWithData == {in.dividends[i].year : i \in 1..Len(in.dividends)}

\* the total of a calendar year
TotalOf(year) ==
    LET SumOver(s) == SumField(s, "amount", 1, Len(s))
    IN  SumOver(SelectSeq(in.dividends, LAMBDA d : d.year = year))

\* the year-over-year change that ends in year: from the latest earlier year
\* with data
ChangeTo(year) ==
    LET Change(from) == Div(Sub(TotalOf(year), TotalOf(from)), TotalOf(from))
    IN  Change(CHOOSE y \in YearsWithData : y < year /\ \A z \in YearsWithData : z < year => z <= y)

\* the years, except the first, whose change lies strictly between -0.9 and 2.0
YearsInRange ==
    {y \in YearsWithData :
        /\ \E z \in YearsWithData : z < y
        /\ Gt(ChangeTo(y), Dec(-9, 10)) /\ Lt(ChangeTo(y), Num(2))}

\* those of them whose previous total is above a cent
YearsIncluded ==
    {y \in YearsInRange :
        Gt(TotalOf(CHOOSE x \in YearsWithData :
                       x < y /\ \A z \in YearsWithData : z < y => z <= x),
           Dec(1, 100))}

\* the mean of the changes of a set of years, 0 for none
RECURSIVE SumOfChanges(_)
SumOfChanges(years) ==
    IF years = {} THEN Zero
    ELSE LET last == CHOOSE y \in years : \A z \in years : z <= y
         IN  Add(SumOfChanges(years \ {last}), ChangeTo(last))

MeanChange(years) ==
    IF years = {} THEN Zero ELSE Div(SumOfChanges(years), Num(Cardinality(years)))

\* C21: calculateGrowthRate averages only those year-over-year changes of the
\* per-calendar-year dividend totals that lie strictly between -0.9 and 2.0,
\* and returns 0 when there are fewer than 2 calendar years of data or no
\* transition qualifies.
C21_AveragesChangesInRange ==
    (calc = "calculateGrowthRate" /\ out.run) =>
        out.growthRate = MeanChange(YearsInRange)

\* C21, amended: the changes averaged are those in the range whose previous
\* yearly total is above 0.01.
C21_AveragesMeaningfulChanges ==
    (calc = "calculateGrowthRate" /\ out.run) =>
        out.growthRate = MeanChange(YearsIncluded)

\* three years of data: the change of 2022 is exactly 2.0 and left out, the
\* change of 2023 is averaged alone
C21_OneOfTwoChanges ==
    /\ calc = "calculateGrowthRate" /\ out.run
    /\ YearsWithData = GrowthYears
    /\ ChangeTo(2022) = Num(2)
    /\ YearsIncluded = {2023}
    /\ out.growthRate = ChangeTo(2023)
    /\ ~IsZero(out.growthRate)


\* ------------------------------------------------------------------------
\* Dividend projections (dividendCalculator.ts)
\* ------------------------------------------------------------------------

\* the longest projection
MaxYears == 3

Null == [special |-> "null"]

\* Math.round(x * 10000) / 10000
RoundShares(x) == Div(MathRound(Mul(x, Num(10000))), Num(10000))

\* growthRate !== null ? growthRate / 100 : dividendInfo.averageGrowthRate
effectiveGrowthRate(dividendInfo, inputs) ==
    IF inputs.growthRate # Null THEN Div(inputs.growthRate, Num(100))
    ELSE dividendInfo.averageGrowthRate

\* priceGrowthRate given ? priceGrowthRate / 100 : effectiveDividendGrowthRate
effectivePriceGrowthRate(dividendInfo, inputs) ==
    IF inputs.priceGrowthRate # Null /\ inputs.priceGrowthRate # Undefined
    THEN Div(inputs.priceGrowthRate, Num(100))
    ELSE effectiveGrowthRate(dividendInfo, inputs)

\* the locals of the projection when it reaches its loop: of
\* calculateDividendProjectionsWithDRIP when dripEnabled, else of
\* calculateDividendProjections, which has no shares, price and new shares
ProjectionLocals(dividendInfo, inputs) ==
    [run                           |-> TRUE,
     drip                          |-> inputs.dripEnabled,
     year                          |-> 1,
     cumulativeDividends           |-> Zero,
     currentShares                 |-> inputs.shares,
     currentAnnualDividendPerShare |-> dividendInfo.annualDividend,
     currentStockPrice             |-> dividendInfo.stockInfo.price,
     totalNewShares                |-> Zero,
     projections                   |-> <<>>]

\* one pass of the loop of calculateDividendProjectionsWithDRIP with the growth
\* applied before the dividend of the year is computed
DRIPYearGrowthFirst(l, dividendInfo, inputs) ==
    LET Pass(dps, price) ==
            [l EXCEPT
                !.year = l.year + 1,
                !.cumulativeDividends = Add(l.cumulativeDividends, Mul(dps, l.currentShares)),
                !.totalNewShares =
                    Add(l.totalNewShares, Div(Mul(dps, l.currentShares), price)),
                !.projections = Append(l.projections,
                    [year                       |-> l.year,
                     projectedAnnualDividend    |-> RoundCents(Mul(dps, l.currentShares)),
                     projectedQuarterlyDividend |->
                         RoundCents(Div(Mul(dps, l.currentShares), Num(4))),
                     totalDividendsReceived     |-> RoundCents(Mul(dps, l.currentShares)),
                     cumulativeDividends        |->
                         RoundCents(Add(l.cumulativeDividends, Mul(dps, l.currentShares))),
                     sharesOwned                |-> RoundShares(l.currentShares),
                     newSharesFromDRIP          |->
                         RoundShares(Div(Mul(dps, l.currentShares), price))]),
                !.currentShares =
                    Add(l.currentShares, Div(Mul(dps, l.currentShares), price)),
                !.currentAnnualDividendPerShare = dps,
                !.currentStockPrice = price]
    IN  Pass(Mul(l.currentAnnualDividendPerShare,
                 Add(One, effectiveGrowthRate(dividendInfo, inputs))),
             Mul(l.currentStockPrice,
                 Add(One, effectivePriceGrowthRate(dividendInfo, inputs))))

\* one pass of the loop of calculateDividendProjectionsWithDRIP that buys no
\* shares with the dividend
DRIPYearNotReinvested(l, dividendInfo, inputs) ==
    LET Pass(projectedAnnualDividend) ==
            [l EXCEPT
                !.year = l.year + 1,
                !.cumulativeDividends = Add(l.cumulativeDividends, projectedAnnualDividend),
                !.projections = Append(l.projections,
                    [year                       |-> l.year,
                     projectedAnnualDividend    |-> RoundCents(projectedAnnualDividend),
                     projectedQuarterlyDividend |->
                         RoundCents(Div(projectedAnnualDividend, Num(4))),
                     totalDividendsReceived     |-> RoundCents(projectedAnnualDividend),
                     cumulativeDividends        |->
                         RoundCents(Add(l.cumulativeDividends, projectedAnnualDividend)),
                     sharesOwned                |-> RoundShares(l.currentShares),
                     newSharesFromDRIP          |-> Zero]),
                !.currentAnnualDividendPerShare =
                    Mul(l.currentAnnualDividendPerShare,
                        Add(One, effectiveGrowthRate(dividendInfo, inputs))),
                !.currentStockPrice =
                    Mul(l.currentStockPrice,
                        Add(One, effectivePriceGrowthRate(dividendInfo, inputs)))]
    IN  Pass(Mul(l.currentAnnualDividendPerShare, l.currentShares))

\* one pass of the loop of calculateDividendProjectionsWithDRIP, year++ included
DRIPYear(l, dividendInfo, inputs) ==
    LET Pass(projectedAnnualDividend, cumulativeDividends, newSharesFromDRIP) ==
            [l EXCEPT
                !.year = l.year + 1,
                !.cumulativeDividends = cumulativeDividends,
                !.totalNewShares = Add(l.totalNewShares, newSharesFromDRIP),
                !.projections = Append(l.projections,
                    [year                       |-> l.year,
                     projectedAnnualDividend    |-> RoundCents(projectedAnnualDividend),
                     projectedQuarterlyDividend |->
                         RoundCents(Div(projectedAnnualDividend, Num(4))),
                     totalDividendsReceived     |-> RoundCents(projectedAnnualDividend),
                     cumulativeDividends        |-> RoundCents(cumulativeDividends),
                     sharesOwned                |-> RoundShares(l.currentShares),
                     newSharesFromDRIP          |-> RoundShares(newSharesFromDRIP)]),
                !.currentShares = Add(l.currentShares, newSharesFromDRIP),
                !.currentAnnualDividendPerShare =
                    Mul(l.currentAnnualDividendPerShare,
                        Add(One, effectiveGrowthRate(dividendInfo, inputs))),
                !.currentStockPrice =
                    Mul(l.currentStockPrice,
                        Add(One, effectivePriceGrowthRate(dividendInfo, inputs)))]
        Dividend(projectedAnnualDividend) ==
            Pass(projectedAnnualDividend,
                 Add(l.cumulativeDividends, projectedAnnualDividend),
                 Div(projectedAnnualDividend, l.currentStockPrice))
    IN  Dividend(Mul(l.currentAnnualDividendPerShare, l.currentShares))

\* one pass of the loop of calculateDividendProjections without DRIP; its
\* currentAnnualDividend is kept in currentAnnualDividendPerShare
PlainYear(l, dividendInfo, inputs) ==
    LET Pass(projectedAnnualDividend, cumulativeDividends) ==
            [l EXCEPT
                !.year = l.year + 1,
                !.cumulativeDividends = cumulativeDividends,
                !.projections = Append(l.projections,
                    [year                       |-> l.year,
                     projectedAnnualDividend    |-> RoundCents(projectedAnnualDividend),
                     projectedQuarterlyDividend |->
                         RoundCents(Div(projectedAnnualDividend, Num(4))),
                     totalDividendsReceived     |-> RoundCents(projectedAnnualDividend),
                     cumulativeDividends        |-> RoundCents(cumulativeDividends)]),
                !.currentAnnualDividendPerShare =
                    Mul(l.currentAnnualDividendPerShare,
                        Add(One, effectiveGrowthRate(dividendInfo, inputs)))]
        Dividend(projectedAnnualDividend) ==
            Pass(projectedAnnualDividend,
                 Add(l.cumulativeDividends, projectedAnnualDividend))
    IN  Dividend(Mul(l.currentAnnualDividendPerShare, inputs.shares))

\* the record returned after the loop; the fields copied from dividendInfo are
\* left out
ProjectionResult(l, dividendInfo, inputs) ==
    IF l.drip
    THEN [run                     |-> TRUE,
          projections             |-> l.projections,
          totalProjectedDividends |-> RoundCents(l.cumulativeDividends),
          totalInvestment         |->
              RoundCents(Mul(dividendInfo.stockInfo.price, inputs.shares)),
          dripEnabled             |-> TRUE,
          finalSharesOwned        |-> RoundShares(l.currentShares),
          totalNewSharesFromDRIP  |-> RoundShares(l.totalNewShares),
          finalPortfolioValue     |->
              RoundCents(Mul(l.currentShares, l.currentStockPrice))]
    ELSE [run                     |-> TRUE,
          projections             |-> l.projections,
          totalProjectedDividends |-> RoundCents(l.cumulativeDividends),
          totalInvestment         |->
              RoundCents(Mul(dividendInfo.stockInfo.price, inputs.shares))]

\* dividend data with a positive annual dividend and a positive price; shares
\* >= 1, years >= 1, a dividend growth rate above -100 % or none given
ProjectionInputs ==
    [dividendInfo : [annualDividend    : {One, Dec(5, 2)},
                     averageGrowthRate : {Dec(5, 100)},
                     stockInfo         : [price : {Num(50), Num(250)}]],
     inputs       : [shares          : {One, Num(100)},
                     years           : 1..MaxYears,
                     growthRate      : {Null, Num(-50), Zero, Num(7)},
                     dripEnabled     : {FALSE},
                     priceGrowthRate : {Null, Zero, Num(10)}]]

\* calculateDividendProjections is about to be called without DRIP
InitProjection ==
    /\ calc = "calculateDividendProjections"
    /\ in \in ProjectionInputs
    /\ loc = NotRun
    /\ out = NotRun
    /\ prev = NotRun
    /\ now = 0 /\ lastCallTime = 0 /\ callers = <<>> /\ released = <<>>

\* the call runs up to the loop
ProjectionEnter ==
    /\ calc = "calculateDividendProjections"
    /\ ~loc.run /\ ~out.run
    /\ loc' = ProjectionLocals(in.dividendInfo, in.inputs)
    /\ UNCHANGED <<calc, in, out, prev, throttleVars>>

\* one pass of the loop with DRIP
ProjectionDRIPYear ==
    /\ calc = "calculateDividendProjections"
    /\ loc.run /\ loc.drip /\ loc.year <= in.inputs.years
    /\ loc' = DRIPYear(loc, in.dividendInfo, in.inputs)
    /\ UNCHANGED <<calc, in, out, prev, throttleVars>>

\* one pass of the loop without DRIP
ProjectionPlainYear ==
    /\ calc = "calculateDividendProjections"
    /\ loc.run /\ ~loc.drip /\ loc.year <= in.inputs.years
    /\ loc' = PlainYear(loc, in.dividendInfo, in.inputs)
    /\ UNCHANGED <<calc, in, out, prev, throttleVars>>

\* the loop is over and the record is returned
ProjectionReturn ==
    /\ calc = "calculateDividendProjections"
    /\ loc.run /\ ~(loc.year <= in.inputs.years)
    /\ out' = ProjectionResult(loc, in.dividendInfo, in.inputs)
    /\ loc' = NotRun
    /\ UNCHANGED <<calc, in, prev, throttleVars>>

\* the caller keeps the record and calls again with dripEnabled = true
ProjectionCallWithDRIP ==
    /\ calc = "calculateDividendProjections"
    /\ out.run /\ ~prev.run
    /\ prev' = [run |-> TRUE, in |-> in, out |-> out]
    /\ in' = [in EXCEPT !.inputs.dripEnabled = TRUE]
    /\ out' = NotRun
    /\ UNCHANGED <<calc, loc, throttleVars>>

NextProjection ==
    \/ ProjectionEnter
    \/ ProjectionDRIPYear
    \/ ProjectionPlainYear
    \/ ProjectionReturn
    \/ ProjectionCallWithDRIP

SpecProjection == InitProjection /\ [][NextProjection]_vars


\* the step is one pass of the loop with DRIP
IsDRIPPass(l, m) == l.run /\ l.drip /\ m.run /\ m.year = l.year + 1

\* what C23 states of the pass from the locals l to the locals m: the dividend
\* and the new shares come from the shares, the dividend per share and the price
\* before the pass, and the growth rates are applied after
DRIPPassAsStated(l, m, dividendGrowth, priceGrowth) ==
    LET Stated(dividendReceived, newShares) ==
            /\ m.cumulativeDividends = Add(l.cumulativeDividends, dividendReceived)
            /\ m.projections[l.year].totalDividendsReceived = RoundCents(dividendReceived)
            /\ m.projections[l.year].sharesOwned = RoundShares(l.currentShares)
            /\ m.projections[l.year].newSharesFromDRIP = RoundShares(newShares)
            /\ m.currentShares = Add(l.currentShares, newShares)
            /\ m.totalNewShares = Add(l.totalNewShares, newShares)
            /\ m.currentAnnualDividendPerShare =
                   Mul(l.currentAnnualDividendPerShare, Add(One, dividendGrowth))
            /\ m.currentStockPrice = Mul(l.currentStockPrice, Add(One, priceGrowth))
            /\ (Gt(l.currentAnnualDividendPerShare, Zero) /\ Gt(l.currentStockPrice, Zero))
                   => Ge(m.currentShares, l.currentShares)
        Received(dividendReceived) ==
            Stated(dividendReceived, Div(dividendReceived, l.currentStockPrice))
    IN  Received(Mul(l.currentShares, l.currentAnnualDividendPerShare))

\* C23: in calculateDividendProjectionsWithDRIP, for every projected year y,
\* dividendReceived(y) = sharesOwned(y) * perShareDividend(y), newShares(y) =
\* dividendReceived(y) / price(y), sharesOwned(y+1) = sharesOwned(y) +
\* newShares(y), and only afterwards are perShareDividend and price multiplied by
\* (1 + their growth rates); sharesOwned never decreases when dividend and price
\* are positive.
C23_DRIPRecurrence ==
    [][IsDRIPPass(loc, loc') =>
           DRIPPassAsStated(loc, loc',
                            effectiveGrowthRate(in.dividendInfo, in.inputs),
                            effectivePriceGrowthRate(in.dividendInfo, in.inputs))]_vars

\* two years have been projected with DRIP, the dividend growing by 7 % and the
\* price by 10 %, and the shares owned have grown in each
C23_SharesGrown ==
    /\ calc = "calculateDividendProjections"
    /\ loc.run /\ loc.drip /\ loc.year = 3
    /\ in.inputs.growthRate = Num(7) /\ in.inputs.priceGrowthRate = Num(10)
    /\ Gt(loc.projections[2].sharesOwned, loc.projections[1].sharesOwned)
    /\ Gt(loc.currentShares, Add(in.inputs.shares, loc.projections[1].newSharesFromDRIP))

\* the sum of the dividends of the years 1..years without reinvestment, before
\* rounding
RECURSIVE PlainTotal(_, _, _, _)
PlainTotal(shares, annualDividend, growth, years) ==
    IF years = 0 THEN Zero
    ELSE Add(PlainTotal(shares, annualDividend, growth, years - 1),
             Mul(Mul(annualDividend, MathPow(Add(One, growth), years - 1)), shares))

\* C24: for the same dividend data, share count, dividend growth rate above
\* -100 % and years >= 2, with a positive annual dividend and a positive price,
\* totalProjectedDividends of the projection with DRIP is strictly greater than
\* that of the projection without.
C24_DRIPTotalGreater ==
    (calc = "calculateDividendProjections" /\ out.run /\ prev.run) =>
        (in.inputs.years >= 2 =>
             Gt(out.totalProjectedDividends, prev.out.totalProjectedDividends))

\* C24, amended: the total with DRIP is strictly greater before the rounding
\* to cents, and the returned total is not less than the one without DRIP.
C24_DRIPTotalNotLess ==
    /\ (calc = "calculateDividendProjections" /\ out.run /\ prev.run) =>
           Ge(out.totalProjectedDividends, prev.out.totalProjectedDividends)
    /\ (calc = "calculateDividendProjections" /\ loc.run /\ loc.drip
            /\ loc.year > in.inputs.years /\ in.inputs.years >= 2) =>
           Gt(loc.cumulativeDividends,
              PlainTotal(in.inputs.shares, in.dividendInfo.annualDividend,
                         effectiveGrowthRate(in.dividendInfo, in.inputs),
                         in.inputs.years))

\* both projections of 100 shares over 3 years have returned, and the one with
\* DRIP has the greater total
C24_BothReturned ==
    /\ calc = "calculateDividendProjections" /\ out.run /\ prev.run
    /\ in.inputs.years = 3 /\ in.inputs.shares = Num(100)
    /\ ~prev.in.inputs.dripEnabled /\ in.inputs.dripEnabled
    /\ prev.in.dividendInfo = in.dividendInfo
    /\ Gt(out.totalProjectedDividends, prev.out.totalProjectedDividends)


\* ------------------------------------------------------------------------
\* Safe withdrawal rate (withdrawalRate.ts)
\* ------------------------------------------------------------------------

\* the longest retirement
MaxRetirementYears == 3

\* calculateSustainabilityScore without its test of the depletion year
calculateSustainabilityScoreByRate(finalBalance, initialBalance, withdrawalRate, depletionYear, plannedYears) ==
    IF Le(withdrawalRate, Dec(35, 10)) /\ Ge(finalBalance, Mul(initialBalance, Dec(5, 10)))
    THEN "excellent"
    ELSE IF Le(withdrawalRate, Num(4)) /\ Ge(finalBalance, Mul(initialBalance, Dec(25, 100)))
    THEN "good"
    ELSE IF Le(withdrawalRate, Dec(45, 10)) THEN "caution"
    ELSE "risky"

calculateSustainabilityScore(finalBalance, initialBalance, withdrawalRate, depletionYear, plannedYears) ==
    IF depletionYear # Null /\ Lt(depletionYear, Num(plannedYears)) THEN "risky"
    ELSE IF Le(withdrawalRate, Dec(35, 10)) /\ Ge(finalBalance, Mul(initialBalance, Dec(5, 10)))
    THEN "excellent"
    ELSE IF Le(withdrawalRate, Num(4)) /\ Ge(finalBalance, Mul(initialBalance, Dec(25, 100)))
    THEN "good"
    ELSE IF Le(withdrawalRate, Dec(45, 10)) THEN "caution"
    ELSE "risky"

\* the locals of calculateWithdrawal when it reaches its loop; done is set by
\* the break, and balances is no variable of the code: it keeps the balance at
\* the end of each year
calculateWithdrawalLocals(inputs) ==
    [run               |-> TRUE,
     year              |-> 1,
     done              |-> FALSE,
     balance           |-> inputs.portfolioValue,
     currentWithdrawal |-> Mul(inputs.portfolioValue, Div(inputs.withdrawalRate, Num(100))),
     totalWithdrawn    |-> Zero,
     depletionYear     |-> Null,
     yearlyProjections |-> <<>>,
     balances          |-> <<>>]

\* one pass of the loop, year++ included, or its break
calculateWithdrawalYear(l, inputs) ==
    LET Pass(actualWithdrawal, afterWithdrawal, returnEarned, balance) ==
            [l EXCEPT
                !.year = l.year + 1,
                !.balance = balance,
                !.currentWithdrawal =
                    Mul(l.currentWithdrawal, Add(One, Div(inputs.inflationRate, Num(100)))),
                !.totalWithdrawn = Add(l.totalWithdrawn, actualWithdrawal),
                !.yearlyProjections = Append(l.yearlyProjections,
                    [year                        |-> l.year,
                     startBalance                |-> MathRound(l.balance),
                     withdrawal                  |-> MathRound(actualWithdrawal),
                     inflationAdjustedWithdrawal |-> MathRound(l.currentWithdrawal),
                     returnEarned                |-> MathRound(returnEarned),
                     endBalance                  |-> MathRound(MathMax(Zero, balance))]),
                !.depletionYear =
                    IF Le(balance, Zero) /\ l.depletionYear = Null THEN Num(l.year)
                    ELSE l.depletionYear,
                !.balances = Append(l.balances, balance)]
        Earn(actualWithdrawal, afterWithdrawal, returnEarned) ==
            Pass(actualWithdrawal, afterWithdrawal, returnEarned,
                 Add(afterWithdrawal, returnEarned))
        Withdraw(actualWithdrawal, afterWithdrawal) ==
            Earn(actualWithdrawal, afterWithdrawal,
                 Mul(afterWithdrawal, Div(inputs.expectedReturn, Num(100))))
        Take(actualWithdrawal) ==
            Withdraw(actualWithdrawal, Sub(l.balance, actualWithdrawal))
    IN  IF Le(l.balance, Zero)
        THEN [l EXCEPT !.done = TRUE,
                       !.depletionYear =
                           IF l.depletionYear = Null THEN Num(l.year - 1)
                           ELSE l.depletionYear]
        ELSE Take(MathMin(l.currentWithdrawal, l.balance))

\* the record returned after the loop; balances is no field of it
calculateWithdrawalResult(l, inputs) ==
    [run                 |-> TRUE,
     initialWithdrawal   |->
         MathRound(Mul(inputs.portfolioValue, Div(inputs.withdrawalRate, Num(100)))),
     monthlyIncome       |->
         MathRound(Div(Mul(inputs.portfolioValue, Div(inputs.withdrawalRate, Num(100))),
                       Num(12))),
     finalPortfolioValue |-> MathRound(MathMax(Zero, l.balance)),
     totalWithdrawn      |-> MathRound(l.totalWithdrawn),
     yearlyProjections   |-> l.yearlyProjections,
     depletionYear       |-> l.depletionYear,
     sustainabilityScore |->
         calculateSustainabilityScore(l.balance, inputs.portfolioValue,
                                      inputs.withdrawalRate, l.depletionYear,
                                      inputs.yearsInRetirement),
     balances            |-> l.balances]

WithdrawalInputs ==
    [portfolioValue    : {Zero, Num(100000)},
     withdrawalRate    : {Num(3), Num(4), Num(50), Num(100)},
     inflationRate     : {Zero, Num(3)},
     yearsInRetirement : 1..MaxRetirementYears,
     expectedReturn    : {Num(-100), Zero, Num(6)}]

InitWithdrawal ==
    /\ calc = "calculateWithdrawal"
    /\ in \in WithdrawalInputs
    /\ loc = NotRun
    /\ out = NotRun
    /\ prev = NotRun
    /\ now = 0 /\ lastCallTime = 0 /\ callers = <<>> /\ released = <<>>

\* calculateWithdrawal is called and runs up to its loop
WithdrawalEnter ==
    /\ calc = "calculateWithdrawal"
    /\ ~loc.run /\ ~out.run
    /\ loc' = calculateWithdrawalLocals(in)
    /\ UNCHANGED <<calc, in, out, prev, throttleVars>>

\* one pass of the loop
WithdrawalYear ==
    /\ calc = "calculateWithdrawal"
    /\ loc.run /\ ~loc.done /\ loc.year <= in.yearsInRetirement
    /\ loc' = calculateWithdrawalYear(loc, in)
    /\ UNCHANGED <<calc, in, out, prev, throttleVars>>

\* the loop is over
WithdrawalReturn ==
    /\ calc = "calculateWithdrawal"
    /\ loc.run /\ (loc.done \/ ~(loc.year <= in.yearsInRetirement))
    /\ out' = calculateWithdrawalResult(loc, in)
    /\ loc' = NotRun
    /\ UNCHANGED <<calc, in, prev, throttleVars>>

NextWithdrawal == WithdrawalEnter \/ WithdrawalYear \/ WithdrawalReturn

SpecWithdrawal == InitWithdrawal /\ [][NextWithdrawal]_vars

\* the balance was 0 or less at the start, or at the end of a year before
\* yearsInRetirement
DepletedEarly ==
    \/ Le(in.portfolioValue, Zero)
    \/ \E y \in 1..Len(out.balances) :
          y < in.yearsInRetirement /\ Le(out.balances[y], Zero)

\* C25: if the simulated balance of calculateWithdrawal reaches zero in a year
\* earlier than yearsInRetirement, sustainabilityScore is 'risky', whatever the
\* withdrawal rate and the ratio of the final to the initial balance.
C25_DepletedIsRisky ==
    (calc = "calculateWithdrawal" /\ out.run) =>
        (DepletedEarly => out.sustainabilityScore = "risky")

\* a portfolio withdrawn at 3 % has lost everything in year 1 of 3 and the
\* score is 'risky', where the rate alone would give 'caution'
C25_LowRateDepleted ==
    /\ calc = "calculateWithdrawal" /\ out.run
    /\ in.withdrawalRate = Num(3) /\ in.yearsInRetirement = 3
    /\ Gt(in.portfolioValue, Zero)
    /\ out.depletionYear = One
    /\ Len(out.yearlyProjections) = 1
    /\ out.sustainabilityScore = "risky"


\* ------------------------------------------------------------------------
\* Years to financial independence (compoundInterest.ts)
\* ------------------------------------------------------------------------

\* const maxYears = 100
maxYears == 100

\* the locals of calculateFIRE once yearsToRetirement is known or
\* calculateYearsToTarget has reached its loop (looping)
calculateFIRELocals(inputs) ==
    LET Locals(annualSavings, fireNumber) ==
            [run               |-> TRUE,
             annualSavings     |-> annualSavings,
             fireNumber        |-> fireNumber,
             returnRate        |-> Div(inputs.expectedReturn, Num(100)),
             looping           |-> ~(Le(annualSavings, Zero)
                                         /\ Lt(inputs.currentSavings, fireNumber))
                                   /\ ~Ge(inputs.currentSavings, fireNumber),
             yearsToRetirement |->
                 IF Le(annualSavings, Zero) /\ Lt(inputs.currentSavings, fireNumber)
                 THEN Infinity
                 ELSE Zero,
             savings           |-> inputs.currentSavings,
             years             |-> 0]
    IN  Locals(Sub(inputs.annualIncome, inputs.annualExpenses),
               Div(inputs.annualExpenses, Div(inputs.safeWithdrawalRate, Num(100))))

\* while (savings < target && years < maxYears)
calculateYearsToTargetCondition(l) ==
    Lt(l.savings, l.fireNumber) /\ l.years < maxYears

\* one pass of the loop of calculateYearsToTarget
calculateYearsToTargetPass(l) ==
    LET Pass(interest) ==
            [l EXCEPT !.savings = Add(l.savings, Add(interest, l.annualSavings)),
                      !.years = l.years + 1]
    IN  Pass(Mul(l.savings, l.returnRate))

\* the record calculateFIRE returns; the projections are left out
calculateFIREResult(l, inputs) ==
    LET Result(yearsToRetirement) ==
            [run               |-> TRUE,
             yearsToRetirement |->
                 IF yearsToRetirement = Infinity THEN Num(-1)
                 ELSE RoundTenths(yearsToRetirement),
             fireNumber        |-> MathRound(l.fireNumber),
             annualSavings     |-> MathRound(l.annualSavings),
             savingsRate       |->
                 RoundTenths(Mul(Div(l.annualSavings, inputs.annualIncome), Num(100))),
             monthlySavings    |-> MathRound(Div(l.annualSavings, Num(12)))]
    IN  Result(IF l.looping THEN Num(l.years) ELSE l.yearsToRetirement)

\* incomes and expenses whose difference is 60000, 10000, 1000 or 0; a
\* withdrawal rate of 4 % makes the FIRE number 25 times the expenses
FIREInputs ==
    [annualIncome       : {Num(50000), Num(100000)},
     annualExpenses     : {Num(40000), Num(49000), Num(50000)},
     currentSavings     : {Zero, Num(900000), Num(1500000)},
     expectedReturn     : {Zero, Num(7)},
     safeWithdrawalRate : {Num(4)}]

InitFIRE ==
    /\ calc = "calculateFIRE"
    /\ in \in FIREInputs
    /\ loc = NotRun
    /\ out = NotRun
    /\ prev = NotRun
    /\ now = 0 /\ lastCallTime = 0 /\ callers = <<>> /\ released = <<>>

\* calculateFIRE is called and runs up to the loop of calculateYearsToTarget, or
\* past the branches that do not call it
FIREEnter ==
    /\ calc = "calculateFIRE"
    /\ ~loc.run /\ ~out.run
    /\ loc' = calculateFIRELocals(in)
    /\ UNCHANGED <<calc, in, out, prev, throttleVars>>

\* one pass of the loop
FIREYear ==
    /\ calc = "calculateFIRE"
    /\ loc.run /\ loc.looping /\ calculateYearsToTargetCondition(loc)
    /\ loc' = calculateYearsToTargetPass(loc)
    /\ UNCHANGED <<calc, in, out, prev, throttleVars>>

\* calculateYearsToTarget returns years, or was not called; calculateFIRE returns
FIREReturn ==
    /\ calc = "calculateFIRE"
    /\ loc.run /\ (loc.looping => ~calculateYearsToTargetCondition(loc))
    /\ out' = calculateFIREResult(loc, in)
    /\ loc' = NotRun
    /\ UNCHANGED <<calc, in, prev, throttleVars>>

NextFIRE == FIREEnter \/ FIREYear \/ FIREReturn

SpecFIRE == InitFIRE /\ [][NextFIRE]_vars

\* the iteration savings := savings * (1 + r) + annualSavings, carried on for
\* n >= 1 more years from the point p = [savings, y] unless the target is
\* reached; the n years are done as two halves, one after the other
RECURSIVE Iterated(_, _, _, _, _)
Iterated(p, annualSavings, r, target, n) ==
    LET Year(q) ==
            IF Ge(q.savings, target) THEN q
            ELSE [savings |-> Add(Mul(q.savings, Add(One, r)), annualSavings),
                  y       |-> q.y + 1]
        Rest(q, m) == IF Evaluated(q) THEN Iterated(q, annualSavings, r, target, m) ELSE q
    IN  IF n = 1 THEN Year(p)
        ELSE Rest(Iterated(p, annualSavings, r, target, n \div 2), n - n \div 2)

\* the smallest number of years after which the iterated savings are at the
\* target, or -1 when 100 years do not bring them there
YearsUntil(savings, annualSavings, r, target) ==
    LET Years(q) == IF Evaluated(q) /\ Ge(q.savings, target) THEN q.y ELSE -1
    IN  IF Evaluated(savings) /\ Evaluated(annualSavings) /\ Evaluated(r)
               /\ Evaluated(target)
        THEN Years(Iterated([savings |-> savings, y |-> 0],
                            annualSavings, r, target, 100))
        ELSE -1

\* the years the claim gives for the inputs of the call
YearsAsStated ==
    YearsUntil(in.currentSavings, Sub(in.annualIncome, in.annualExpenses),
               Div(in.expectedReturn, Num(100)),
               Div(in.annualExpenses, Div(in.safeWithdrawalRate, Num(100))))

\* the returned yearsToRetirement is the number years
ReturnedYearsAre(years) == Evaluated(years) /\ out.yearsToRetirement = Num(years)

\* C27: calculateFIRE returns yearsToRetirement = -1 exactly when iterating
\* savings := savings * (1 + r) + annualSavings from currentSavings does not
\* bring savings to fireNumber within 100 years, and otherwise the smallest
\* number of years after which the iterated savings are >= fireNumber (0 when
\* currentSavings >= fireNumber already).
C27_YearsToRetirement ==
    (calc = "calculateFIRE" /\ out.run) => ReturnedYearsAre(YearsAsStated)

\* the loop has found the FIRE number reached in a year between the first and
\* the hundredth, and that year is returned
C27_ReachedInTime ==
    /\ calc = "calculateFIRE" /\ out.run
    /\ Gt(out.yearsToRetirement, Zero) /\ Lt(out.yearsToRetirement, Num(100))
    /\ ReturnedYearsAre(YearsAsStated)


\* ------------------------------------------------------------------------
\* Extra payments (amortization.ts) and the bounded loops
\* ------------------------------------------------------------------------

\* if (originalMonths > 600) break
SafetyLimit == 600

\* the locals of calculateExtraPaymentImpact when it reaches its first loop;
\* loop names the loop it is in and stopped is set by the break
calculateExtraPaymentImpactLocals(inputs) ==
    [run              |-> TRUE,
     loop             |-> "original",
     stopped          |-> FALSE,
     monthlyRate      |-> Div(Div(inputs.annualInterestRate, Num(100)), Num(12)),
     totalWithExtra   |-> Add(inputs.monthlyPayment, inputs.extraMonthlyPayment),
     balance          |-> inputs.loanAmount,
     originalMonths   |-> 0,
     originalInterest |-> Zero,
     newMonths        |-> 0,
     newInterest      |-> Zero]

\* one pass of the first loop, its break included
ExtraPaymentOriginalPass(l, inputs) ==
    LET Pass(interest) ==
            [l EXCEPT
                !.balance = Sub(l.balance,
                                MathMin(Sub(inputs.monthlyPayment, interest), l.balance)),
                !.originalInterest = Add(l.originalInterest, interest),
                !.originalMonths = l.originalMonths + 1,
                !.stopped = l.originalMonths + 1 > SafetyLimit]
    IN  Pass(Mul(l.balance, l.monthlyRate))

\* one pass of the second loop, its break included
ExtraPaymentNewPass(l, inputs) ==
    LET Pass(interest) ==
            [l EXCEPT
                !.balance = Sub(l.balance,
                                MathMin(Sub(l.totalWithExtra, interest), l.balance)),
                !.newInterest = Add(l.newInterest, interest),
                !.newMonths = l.newMonths + 1,
                !.stopped = l.newMonths + 1 > SafetyLimit]
    IN  Pass(Mul(l.balance, l.monthlyRate))

calculateExtraPaymentImpactResult(l) ==
    [run           |-> TRUE,
     monthsSaved   |-> l.originalMonths - l.newMonths,
     interestSaved |-> MathRound(Sub(l.originalInterest, l.newInterest))]

\* loans that a payment of 100 or 1000 repays, just covers the interest of, or
\* does not cover it
ExtraPaymentInputs ==
    [loanAmount          : {Num(10000), Num(60000)},
     annualInterestRate  : {Zero, Num(12)},
     monthlyPayment      : {Num(100), Num(1000)},
     extraMonthlyPayment : {Zero, Num(100)}]

InitExtraPayment ==
    /\ calc = "calculateExtraPaymentImpact"
    /\ in \in ExtraPaymentInputs
    /\ loc = NotRun
    /\ out = NotRun
    /\ prev = NotRun
    /\ now = 0 /\ lastCallTime = 0 /\ callers = <<>> /\ released = <<>>

\* calculateExtraPaymentImpact is called and runs up to its first loop
ExtraPaymentEnter ==
    /\ calc = "calculateExtraPaymentImpact"
    /\ ~loc.run /\ ~out.run
    /\ loc' = calculateExtraPaymentImpactLocals(in)
    /\ UNCHANGED <<calc, in, out, prev, throttleVars>>

\* one pass of the first loop
ExtraPaymentOriginalMonth ==
    /\ calc = "calculateExtraPaymentImpact"
    /\ loc.run /\ loc.loop = "original" /\ ~loc.stopped /\ Gt(loc.balance, Zero)
    /\ loc' = ExtraPaymentOriginalPass(loc, in)
    /\ UNCHANGED <<calc, in, out, prev, throttleVars>>

\* the first loop is over: balance = loanAmount, and the second begins
ExtraPaymentSecondLoop ==
    /\ calc = "calculateExtraPaymentImpact"
    /\ loc.run /\ loc.loop = "original" /\ (loc.stopped \/ ~Gt(loc.balance, Zero))
    /\ loc' = [loc EXCEPT !.loop = "new", !.stopped = FALSE, !.balance = in.loanAmount]
    /\ UNCHANGED <<calc, in, out, prev, throttleVars>>

\* one pass of the second loop
ExtraPaymentNewMonth ==
    /\ calc = "calculateExtraPaymentImpact"
    /\ loc.run /\ loc.loop = "new" /\ ~loc.stopped /\ Gt(loc.balance, Zero)
    /\ loc' = ExtraPaymentNewPass(loc, in)
    /\ UNCHANGED <<calc, in, out, prev, throttleVars>>

\* the second loop is over and the record is returned
ExtraPaymentReturn ==
    /\ calc = "calculateExtraPaymentImpact"
    /\ loc.run /\ loc.loop = "new" /\ (loc.stopped \/ ~Gt(loc.balance, Zero))
    /\ out' = calculateExtraPaymentImpactResult(loc)
    /\ loc' = NotRun
    /\ UNCHANGED <<calc, in, prev, throttleVars>>

\* the three functions with a bounded loop, each called once
InitLoops == InitAffordabilityDebt \/ InitFIRE \/ InitExtraPayment

NextLoops ==
    \/ AffordabilityEnter
    \/ AffordabilitySearch
    \/ AffordabilityReturn
    \/ FIREEnter
    \/ FIREYear
    \/ FIREReturn
    \/ ExtraPaymentEnter
    \/ ExtraPaymentOriginalMonth
    \/ ExtraPaymentSecondLoop
    \/ ExtraPaymentNewMonth
    \/ ExtraPaymentReturn

SpecLoops == InitLoops /\ [][NextLoops]_vars

\* C26: every loop ends within its fixed bound for all inputs: the loop of
\* findMaxHomePrice after exactly 50 passes, that of calculateYearsToTarget
\* after at most 100, and each payoff loop of calculateExtraPaymentImpact after
\* at most 600, also when the monthly payment never reduces the balance.
C26_LoopsWithinBounds ==
    /\ [](loc.run =>
              /\ calc = "calculateAffordability" => loc.i <= 50
              /\ calc = "calculateFIRE" => loc.years <= 100
              /\ calc = "calculateExtraPaymentImpact" =>
                     loc.originalMonths <= 600 /\ loc.newMonths <= 600)
    /\ [][(calc = "calculateAffordability" /\ loc.run /\ ~loc'.run) => loc.i = 50]_vars

\* the first payoff loop has ended although the payment does not cover the
\* interest of the first month
C26_GrowingBalanceStopped ==
    /\ calc = "calculateExtraPaymentImpact"
    /\ loc.run /\ loc.loop = "new"
    /\ Lt(in.monthlyPayment, Mul(in.loanAmount, loc.monthlyRate))


=============================================================================
